---- MODULE Spec2Model ----
(***************************************************************************)
(* A model of fastPASTA's reader-to-sink pipeline (src/src/input/lib.rs)   *)
(* and of its running payload validator                                    *)
(* (src/src/validators/cdp_running.rs).                                    *)
(*                                                                         *)
(* The two subsystems share no state. SpecReader / LiveReader run the      *)
(* pipeline and keep the validator at its constructed state.               *)
(*                                                                         *)
(* The last part models the RDH-CRU record on the wire                     *)
(* (src/src/words/rdh_cru.rs), the RDH sanity validator                    *)
(* (src/src/validators/rdh.rs) and the buffered writer                     *)
(* (src/src/write/writer.rs); they too share no state with the rest.       *)
(***************************************************************************)
EXTENDS Integers, Sequences, FiniteSets, TLC

(***************************************************************************)
(* Sizes.  The program sets both to 100 (lib.rs:23 and lib.rs:55); the     *)
(* model is parametric in them and is checked at these scaled values.      *)
(***************************************************************************)
CHANNEL_CDP_CHUNK_CAPACITY == 2

CDP_CHUNK_SIZE == 3

\* The longest finite input: CDPs that load_cdp can return before the input ends.
MaxCdps == 10

VARIABLES
    \* ---- reader thread and channel (src/src/input/lib.rs) ----
    input,          \* what the InputScanner will deliver (fixed at construction)
    input_scanner,  \* position of the scanner: items of the input consumed
    stop_flag,      \* the shared AtomicBool
    local_stop_on_non_full_chunk,
    reader_pc,      \* where the reader thread is in its loop
    cdps,           \* the chunk get_chunk returned, about to be sent
    send_channel,   \* contents of the bounded channel, oldest first
    sink_pc,        \* where the receiving thread is; "done": receiver dropped
    \* ---- history of the pipeline ----
    get_chunk_ret,  \* what the last get_chunk call did
    get_chunk_calls,\* number of get_chunk calls so far
    sent,           \* chunks the reader has successfully sent, in order
    received,       \* chunks the sink has received, in order
    after_stop      \* what the reader did with the flag set and after a
                    \* failed send: get_chunk calls and chunks sent

reader_vars == <<input, input_scanner, stop_flag, local_stop_on_non_full_chunk,
                 reader_pc, cdps, send_channel, sink_pc,
                 get_chunk_ret, get_chunk_calls, sent, received, after_stop>>

VARIABLES
    \* ---- CdpRunningValidator (src/src/validators/cdp_running.rs) ----
    running_checks,     \* config.running_checks
    its_state_machine,  \* state of the payload state machine
    current_rdh,
    current_ihw,
    current_tdh,
    previous_tdh,
    current_tdt,
    current_ddw0,
    previous_cdw,
    gbt_word_counter,
    payload_mem_pos,
    gbt_word_padding_size_bytes,
    is_new_data,
    stats_rx_alive,     \* the receiver of stats_send_ch still exists
    panicked,           \* a check() call panicked: the validator is gone
    \* ---- history of the validator ----
    rdh_arg,            \* arguments of the last set_current_rdh call
    check_calls,        \* check() calls so far
    words_processed,    \* check() calls that ran to their end
    payload_words,      \* check() calls since the last set_current_rdh
    last_label,         \* label of the last word checked
    last_word,          \* the last word check() processed to its end
    word_errors,        \* errors the last check() call sent, in order
    prev_reported,      \* highest position reported for earlier words of the payload
    trace               \* when on: the calls made so far and the labels emitted

val_vars == <<running_checks, its_state_machine, current_rdh, current_ihw, current_tdh,
              previous_tdh, current_tdt, current_ddw0, previous_cdw, gbt_word_counter,
              payload_mem_pos, gbt_word_padding_size_bytes, is_new_data, stats_rx_alive,
              panicked, rdh_arg, check_calls, words_processed, payload_words, last_label,
              last_word, word_errors, prev_reported, trace>>

VARIABLES
    \* ---- RdhCRU::load on a byte source (src/src/words/rdh_cru.rs) ----
    version,        \* the type parameter of RdhCRU<Version>: "V6" or "V7"
    source,         \* the bytes the reader delivers before it is at its end
    load_ret,       \* what load returned, None before the call
    load_panicked,  \* an unwrap()/expect() on a failed read panicked
    byte_slice,     \* the to_byte_slice() view of the loaded RDH
    rdh_copy        \* the copy set_current_rdh makes of the loaded RDH

load_vars == <<version, source, load_ret, load_panicked, byte_slice, rdh_copy>>

VARIABLES
    \* ---- RdhCruSanityValidator (src/src/validators/rdh.rs) ----
    rdh0_validator,     \* the Rdh0Validator: expected values of the Rdh0 fields
    sanity_last,        \* the last call made on the validator and what it returned
    sanity_calls,       \* number of sanity_check calls so far
    first_header_id,    \* header_id of the first RDH passed to sanity_check
    specialization      \* "ITS" once the validator is specialized, else "none"

sanity_vars == <<rdh0_validator, sanity_last, sanity_calls, first_header_id,
                 specialization>>

VARIABLES
    \* ---- BufferedWriter (src/src/write/writer.rs) ----
    filtered_rdhs_buffer,
    filtered_payload_buffers,
    max_buffer_size,
    writer_pc,      \* "open", "dropped" after drop(), "panicked" after a failed flush
    written,        \* the bytes handed to write(), in order
    flushes,        \* number of flush() calls that wrote buffered CDPs
    pushed,         \* the CDPs passed to push_cdp_chunk, in order
    debug_assertions,   \* the build keeps debug_assert_eq! (writer.rs:101)
    owed,           \* RDHs given to push_rdhs whose payload is not yet pushed
    flush_mismatch, \* "none", or the call ("push", "drop") whose flush() ran
                    \* on buffers of unequal lengths
    flush_ret,      \* what the last flush() called by the owner returned
    flush_returns   \* number of flush() calls by the owner that returned

writer_vars == <<filtered_rdhs_buffer, filtered_payload_buffers, max_buffer_size,
                 writer_pc, written, flushes, pushed, debug_assertions, owed,
                 flush_mismatch, flush_ret, flush_returns>>

rdh_io_vars == <<load_vars, sanity_vars, writer_vars>>

VARIABLES
    \* ---- hbf_view (src/src/view/hbf_view.rs) ----
    view_chunk,     \* the chunk given to the last hbf_view call
    view_fsm,       \* state of the view's ItsPayloadFsmContinuous
    view_stats,     \* what the view sent on the stats channel, in order
    view_lines,     \* the words the last call classified, in order: the CDP,
                    \* the index, the position and the label of each
    view_last       \* the calls made, and what the last one did with each CDP

view_vars == <<view_chunk, view_fsm, view_stats, view_lines, view_last>>

VARIABLES
    \* ---- FilterLink (src/src/lib.rs) ----
    link_to_filter,
    filter_max_buffer_size,
    filter_rdhs_buffer,
    filter_payload_buffers,
    total_filtered,
    filter_input,   \* the payloads the reader still holds, in order
    filter_pc,      \* "open", or the panic that ended the run
    filter_ret,     \* result of the last filter_link call
    filter_out      \* the records written, in order

filter_vars == <<link_to_filter, filter_max_buffer_size, filter_rdhs_buffer,
                 filter_payload_buffers, total_filtered, filter_input, filter_pc,
                 filter_ret, filter_out>>

tool_vars == <<view_vars, filter_vars>>

vars == <<reader_vars, val_vars, rdh_io_vars, tool_vars>>

----------------------------------------------------------------------------
(***************************************************************************)
(* The input.  `good` CDPs load, then load_cdp fails once with `err`, then *)
(* `more` CDPs load, then the input is at its end (UnexpectedEof on every  *)
(* further call).  err = "Endless" is a stream that never ends or fails    *)
(* (stdin fed by a running process).                                       *)
(***************************************************************************)
ErrorKinds == {"UnexpectedEof", "InvalidData", "Other"}

FiniteInputs ==
    {[good |-> g, err |-> e, more |-> m] :
        g \in 0..MaxCdps, e \in ErrorKinds, m \in 0..MaxCdps}

ValidInput(i) ==
    /\ i.good + i.more <= MaxCdps
    /\ (i.err = "UnexpectedEof" => i.more = 0)

EndlessInput == [good |-> 0, err |-> "Endless", more |-> 0]

\* InputScanner::load_cdp at scanner position p. A CDP is identified by its
\* rank among the CDPs the input holds; an endless stream yields CDP 0 forever.
LoadCdp(p) ==
    IF input.err = "Endless" THEN [kind |-> "Ok", cdp |-> 0, pos |-> p]
    ELSE IF p < input.good THEN [kind |-> "Ok", cdp |-> p + 1, pos |-> p + 1]
    ELSE IF p = input.good /\ input.err # "UnexpectedEof"
        THEN [kind |-> input.err, cdp |-> 0, pos |-> p + 1]
    ELSE IF p > input.good /\ p <= input.good + input.more
        THEN [kind |-> "Ok", cdp |-> p, pos |-> p + 1]
    ELSE [kind |-> "UnexpectedEof", cdp |-> 0, pos |-> p]

\* The CDPs load_cdp has returned so far, in the order it returned them.
LoadedCount == IF input_scanner <= input.good THEN input_scanner ELSE input_scanner - 1

LoadedCdps == [k \in 1..LoadedCount |-> k]

----------------------------------------------------------------------------
\* Mutant of CdpChunkPush: the triple goes to the front of the chunk.
CdpChunkPushFront(chunk, cdp) == <<cdp>> \o chunk

\* CdpChunk::push: the triple goes to the end of the chunk.
CdpChunkPush(chunk, cdp) == Append(chunk, cdp)

\* The for loop of get_chunk, from iteration i on, with the chunk built so far.
\* ret: "end" the loop ran out or broke, "Err" the function returned early.
RECURSIVE GetChunkLoop(_, _, _, _)
GetChunkLoop(i, p, cdp_chunk, chunk_size_cdps) ==
    IF i >= chunk_size_cdps
        THEN [ret |-> "end", err |-> "none", failed |-> "none", chunk |-> cdp_chunk, pos |-> p]
    ELSE LET r == LoadCdp(p) IN
        IF r.kind = "Ok"
            THEN GetChunkLoop(i + 1, r.pos, CdpChunkPush(cdp_chunk, r.cdp), chunk_size_cdps)
        ELSE IF r.kind = "InvalidData"
            THEN [ret |-> "end", err |-> "none", failed |-> r.kind, chunk |-> cdp_chunk, pos |-> r.pos]
        ELSE IF r.kind = "UnexpectedEof"
            THEN [ret |-> "end", err |-> "none", failed |-> r.kind, chunk |-> cdp_chunk, pos |-> r.pos]
        ELSE [ret |-> "Err", err |-> r.kind, failed |-> r.kind, chunk |-> cdp_chunk, pos |-> r.pos]

\* Mutant of ChunkIsEmpty: get_chunk without its empty-chunk test.
ChunkIsEmptyNotTested(chunk) == FALSE

\* The empty-chunk test that ends get_chunk: lib.rs:130.
ChunkIsEmpty(chunk) == chunk = <<>>

\* get_chunk(file_scanner at p, n). ret "Ok": `chunk` is returned; ret "Err":
\* error `err` is returned. nread and failed tell what the loop did: the CDPs it
\* read and the load_cdp error that stopped it ("none" if none did).
GetChunk(p, chunk_size_cdps) ==
    LET l == GetChunkLoop(0, p, <<>>, chunk_size_cdps) IN
    IF l.ret = "Err"
        THEN [ret |-> "Err", err |-> l.err, chunk |-> <<>>, pos |-> l.pos,
              nread |-> Len(l.chunk), failed |-> l.failed]
    ELSE IF ChunkIsEmpty(l.chunk)
        THEN [ret |-> "Err", err |-> "UnexpectedEof", chunk |-> <<>>, pos |-> l.pos,
              nread |-> Len(l.chunk), failed |-> l.failed]
    ELSE [ret |-> "Ok", err |-> "none", chunk |-> l.chunk, pos |-> l.pos,
          nread |-> Len(l.chunk), failed |-> l.failed]

\* Cap of the counters in after_stop.
MaxAfterStop == 3

\* n + 1 when `counted`, capped.
CountIf(counted, n) == IF counted /\ n < MaxAfterStop THEN n + 1 ELSE n

\* The reader has not acted with the flag set, and no send has failed.
NothingAfterStop == [reads |-> 0, sends |-> 0, send_failed |-> FALSE,
                     reads_after_failed_send |-> 0]

NoGetChunk == [ret |-> "none", err |-> "none", chunk |-> <<>>, pos |-> 0,
               nread |-> 0, failed |-> "none", first |-> "none"]

\* The history is kept for finite inputs only (an endless one has no bound).
Log(history, chunk) == IF input.err = "Endless" THEN history ELSE Append(history, chunk)

Count(n) == IF input.err = "Endless" THEN n ELSE n + 1

----------------------------------------------------------------------------
(***************************************************************************)
(* The reader thread: the loop of spawn_reader, one action per step        *)
(* between two accesses to shared state (the flag, the channel).           *)
(***************************************************************************)

\* Mutant of ReaderCheckStop: the loop head forgets local_stop_on_non_full_chunk.
ReaderCheckStopFlagOnly ==
    /\ reader_pc = "head"
    /\ reader_pc' = IF stop_flag THEN "done" ELSE "read"
    /\ UNCHANGED <<val_vars, rdh_io_vars, tool_vars, after_stop>>
    /\ UNCHANGED <<input, input_scanner, stop_flag, local_stop_on_non_full_chunk, cdps,
                   send_channel, sink_pc, get_chunk_ret, get_chunk_calls, sent, received>>

\* Mutant of ReaderCheckStop: the loop head forgets the shared stop flag.
ReaderCheckStopLocalOnly ==
    /\ reader_pc = "head"
    /\ reader_pc' = IF local_stop_on_non_full_chunk THEN "done" ELSE "read"
    /\ UNCHANGED <<val_vars, rdh_io_vars, tool_vars, after_stop>>
    /\ UNCHANGED <<input, input_scanner, stop_flag, local_stop_on_non_full_chunk, cdps,
                   send_channel, sink_pc, get_chunk_ret, get_chunk_calls, sent, received>>

\* Loop head: lib.rs:63-66.
ReaderCheckStop ==
    /\ reader_pc = "head"
    /\ reader_pc' = IF stop_flag \/ local_stop_on_non_full_chunk THEN "done" ELSE "read"
    /\ UNCHANGED <<val_vars, rdh_io_vars, tool_vars, after_stop>>
    /\ UNCHANGED <<input, input_scanner, stop_flag, local_stop_on_non_full_chunk, cdps,
                   send_channel, sink_pc, get_chunk_ret, get_chunk_calls, sent, received>>

\* Mutant of IsNonFullChunk: <= for <, a full chunk stops the reader too.
IsNonFullChunkOffByOne(len) == len <= CDP_CHUNK_SIZE

\* Whether a chunk of this length makes the reader stop: lib.rs:69.
IsNonFullChunk(len) == len < CDP_CHUNK_SIZE

\* let cdps = match get_chunk(...): lib.rs:67-84.
ReaderGetChunk ==
    /\ reader_pc = "read"
    /\ LET g == GetChunk(input_scanner, CDP_CHUNK_SIZE) IN
        /\ input_scanner' = g.pos
        /\ get_chunk_ret' = [g EXCEPT !.pos = input_scanner] @@
                            [first |-> LoadCdp(input_scanner).kind]
        /\ get_chunk_calls' = Count(get_chunk_calls)
        /\ IF g.ret = "Ok"
            THEN /\ cdps' = g.chunk
                 /\ local_stop_on_non_full_chunk' =
                        IF IsNonFullChunk(Len(g.chunk)) THEN TRUE
                        ELSE local_stop_on_non_full_chunk
                 /\ reader_pc' = "send"
            ELSE /\ cdps' = <<>>
                 /\ reader_pc' = "done"
                 /\ UNCHANGED local_stop_on_non_full_chunk
    /\ after_stop' = [after_stop EXCEPT
            !.reads = CountIf(stop_flag, @),
            !.reads_after_failed_send = CountIf(after_stop.send_failed, @)]
    /\ UNCHANGED <<val_vars, rdh_io_vars, tool_vars>>
    /\ UNCHANGED <<input, stop_flag, send_channel, sink_pc, sent, received>>

\* Mutant of ReaderSend: an unbounded channel, send never blocks.
ReaderSendUnbounded ==
    /\ reader_pc = "send"
    /\ IF sink_pc = "done"
        THEN /\ reader_pc' = "send_err"
             /\ UNCHANGED <<send_channel, sent>>
        ELSE /\ send_channel' = Append(send_channel, cdps)
             /\ sent' = Log(sent, cdps)
             /\ reader_pc' = "sent"
    /\ cdps' = <<>>
    /\ after_stop' = IF sink_pc = "done"
                     THEN [after_stop EXCEPT !.send_failed = TRUE]
                     ELSE [after_stop EXCEPT !.sends = CountIf(stop_flag, @)]
    /\ UNCHANGED <<val_vars, rdh_io_vars, tool_vars>>
    /\ UNCHANGED <<input, input_scanner, stop_flag, local_stop_on_non_full_chunk,
                   sink_pc, get_chunk_ret, get_chunk_calls, received>>

\* send_channel.send(cdps), lib.rs:87, on a crossbeam bounded channel: it
\* blocks while the channel is full and the receiver lives, fails once the
\* receiver is dropped, and otherwise queues the chunk.
ReaderSend ==
    /\ reader_pc = "send"
    /\ IF sink_pc = "done"
        THEN /\ reader_pc' = "send_err"
             /\ UNCHANGED <<send_channel, sent>>
        ELSE /\ Len(send_channel) < CHANNEL_CDP_CHUNK_CAPACITY
             /\ send_channel' = Append(send_channel, cdps)
             /\ sent' = Log(sent, cdps)
             /\ reader_pc' = "sent"
    /\ cdps' = <<>>
    /\ after_stop' = IF sink_pc = "done"
                     THEN [after_stop EXCEPT !.send_failed = TRUE]
                     ELSE [after_stop EXCEPT !.sends = CountIf(stop_flag, @)]
    /\ UNCHANGED <<val_vars, rdh_io_vars, tool_vars>>
    /\ UNCHANGED <<input, input_scanner, stop_flag, local_stop_on_non_full_chunk,
                   sink_pc, get_chunk_ret, get_chunk_calls, received>>

\* Mutant of ReaderSendFailed: a failed send never leaves the loop.
ReaderSendFailedGoesOn ==
    /\ reader_pc = "send_err"
    /\ reader_pc' = "head"
    /\ UNCHANGED <<val_vars, rdh_io_vars, tool_vars, after_stop>>
    /\ UNCHANGED <<input, input_scanner, stop_flag, local_stop_on_non_full_chunk, cdps,
                   send_channel, sink_pc, get_chunk_ret, get_chunk_calls, sent, received>>

\* The send failed: lib.rs:88-91. With the flag set the loop goes on to its head.
ReaderSendFailed ==
    /\ reader_pc = "send_err"
    /\ reader_pc' = IF ~stop_flag THEN "done" ELSE "head"
    /\ UNCHANGED <<val_vars, rdh_io_vars, tool_vars, after_stop>>
    /\ UNCHANGED <<input, input_scanner, stop_flag, local_stop_on_non_full_chunk, cdps,
                   send_channel, sink_pc, get_chunk_ret, get_chunk_calls, sent, received>>

\* The send succeeded: lib.rs:92-95.
ReaderSendOk ==
    /\ reader_pc = "sent"
    /\ reader_pc' = IF stop_flag THEN "done" ELSE "head"
    /\ UNCHANGED <<val_vars, rdh_io_vars, tool_vars, after_stop>>
    /\ UNCHANGED <<input, input_scanner, stop_flag, local_stop_on_non_full_chunk, cdps,
                   send_channel, sink_pc, get_chunk_ret, get_chunk_calls, sent, received>>

Reader == ReaderCheckStop \/ ReaderGetChunk \/ ReaderSend \/ ReaderSendFailed \/ ReaderSendOk

----------------------------------------------------------------------------
(***************************************************************************)
(* The receiving stage and the shutdown request.  The sink is the caller   *)
(* of spawn_reader; its loop follows section 5 of the specification: it    *)
(* polls the flag at its loop head, receives one chunk at a time, and      *)
(* drops the receiver when it leaves the loop.                             *)
(***************************************************************************)
SinkCheckStop ==
    /\ sink_pc = "head"
    /\ sink_pc' = IF stop_flag THEN "done" ELSE "recv"
    /\ UNCHANGED <<val_vars, rdh_io_vars, tool_vars, after_stop>>
    /\ UNCHANGED <<input, input_scanner, stop_flag, local_stop_on_non_full_chunk, reader_pc,
                   cdps, send_channel, get_chunk_ret, get_chunk_calls, sent, received>>

\* recv(): takes the oldest chunk; blocks on an empty channel while the sender lives.
SinkRecv ==
    /\ sink_pc = "recv"
    /\ send_channel # <<>>
    /\ received' = Log(received, Head(send_channel))
    /\ send_channel' = Tail(send_channel)
    /\ sink_pc' = "head"
    /\ UNCHANGED <<val_vars, rdh_io_vars, tool_vars, after_stop>>
    /\ UNCHANGED <<input, input_scanner, stop_flag, local_stop_on_non_full_chunk, reader_pc,
                   cdps, get_chunk_ret, get_chunk_calls, sent>>

\* recv() on an empty channel whose sender is gone fails: the sink leaves its loop.
SinkDisconnected ==
    /\ sink_pc = "recv"
    /\ send_channel = <<>>
    /\ reader_pc = "done"
    /\ sink_pc' = "done"
    /\ UNCHANGED <<val_vars, rdh_io_vars, tool_vars, after_stop>>
    /\ UNCHANGED <<input, input_scanner, stop_flag, local_stop_on_non_full_chunk, reader_pc,
                   cdps, send_channel, get_chunk_ret, get_chunk_calls, sent, received>>

\* The sink gives up on its own (an output error): the receiver is dropped
\* with no shutdown request.
SinkAbort ==
    /\ sink_pc = "head"
    /\ ~stop_flag
    /\ sink_pc' = "done"
    /\ UNCHANGED <<val_vars, rdh_io_vars, tool_vars, after_stop>>
    /\ UNCHANGED <<input, input_scanner, stop_flag, local_stop_on_non_full_chunk, reader_pc,
                   cdps, send_channel, get_chunk_ret, get_chunk_calls, sent, received>>

\* Someone requests shutdown: stop_flag.store(true). Nothing clears the flag.
SetStopFlag ==
    /\ ~stop_flag
    /\ stop_flag' = TRUE
    /\ UNCHANGED <<val_vars, rdh_io_vars, tool_vars, after_stop>>
    /\ UNCHANGED <<input, input_scanner, local_stop_on_non_full_chunk, reader_pc, cdps,
                   send_channel, sink_pc, get_chunk_ret, get_chunk_calls, sent, received>>

Sink == SinkCheckStop \/ SinkRecv \/ SinkDisconnected

----------------------------------------------------------------------------
(***************************************************************************)
(* The running validator.  A GBT word is given by its ID byte (byte 9) and *)
(* by the fields the status-word loaders read from its other bytes; `sane` *)
(* says whether those other bytes pass the word's sanity check.            *)
(***************************************************************************)
None == <<>>

Some(x) == <<x>>

Unwrap(slot) == slot[1]

ZeroWord ==
    [id |-> 0, active_lanes |-> 0, continuation |-> 0, internal_trigger |-> 0,
     trigger_bc |-> 0, trigger_orbit |-> 0, trigger_type |-> 0, packet_done |-> 0,
     calibration_word_index |-> 0, calibration_user_fields |-> 0, sane |-> TRUE]

\* The words the model feeds to check(): every word kind, well-formed and not.
GbtWords ==
    { [ZeroWord EXCEPT !.id = 224, !.active_lanes = 1],                      \* IHW, lane 0 active
      [ZeroWord EXCEPT !.id = 232, !.internal_trigger = 1, !.trigger_type = 16], \* TDH
      [ZeroWord EXCEPT !.id = 232, !.continuation = 1, !.trigger_bc = 1,
                       !.trigger_orbit = 1, !.trigger_type = 17],            \* TDH, another trigger
      [ZeroWord EXCEPT !.id = 240],                                          \* TDT, packet_done 0
      [ZeroWord EXCEPT !.id = 240, !.packet_done = 1],                       \* TDT, packet_done 1
      [ZeroWord EXCEPT !.id = 228],                                          \* DDW0
      [ZeroWord EXCEPT !.id = 32],                                           \* IB data, lane 0
      [ZeroWord EXCEPT !.id = 71],                                           \* OB data, input 7
      [ZeroWord EXCEPT !.id = 243, !.sane = FALSE],                          \* no valid ID
      [ZeroWord EXCEPT !.id = 248, !.calibration_word_index = 1,
                       !.calibration_user_fields = 1] }                      \* CDW, index 1

\* The RDH fields the validator reads.
RdhOf(s, p, d, t) ==
    [stop_bit |-> s, pages_counter |-> p, data_format |-> d,
     orbit |-> 0, bc |-> 0, trigger_type |-> t]

\* The payloads the model feeds to set_current_rdh(), each an RDH and the
\* position of that RDH in the input: a first page with 80-bit words and a
\* last page with padded words.
Payloads == {[rdh |-> RdhOf(0, 0, 2, 16), rdh_mem_pos |-> 0],
             [rdh |-> RdhOf(1, 1, 0, 2), rdh_mem_pos |-> 5088]}

\* Status-word loaders: the fields of a word read as the kind it is taken for.
IhwLoad(w) == [id |-> w.id, active_lanes |-> w.active_lanes, sane |-> w.sane]

TdhLoad(w) ==
    [id |-> w.id, continuation |-> w.continuation, internal_trigger |-> w.internal_trigger,
     trigger_bc |-> w.trigger_bc, trigger_orbit |-> w.trigger_orbit,
     trigger_type |-> w.trigger_type, sane |-> w.sane]

TdtLoad(w) == [id |-> w.id, packet_done |-> w.packet_done, sane |-> w.sane]

Ddw0Load(w) == [id |-> w.id, sane |-> w.sane]

CdwLoad(w) ==
    [id |-> w.id, calibration_word_index |-> w.calibration_word_index,
     calibration_user_fields |-> w.calibration_user_fields]

\* T::load(&mut rdh.to_byte_slice()): a copy of the RDH, field by field.
RdhCopy(rdh) ==
    [stop_bit |-> rdh.stop_bit, pages_counter |-> rdh.pages_counter,
     data_format |-> rdh.data_format, orbit |-> rdh.orbit, bc |-> rdh.bc,
     trigger_type |-> rdh.trigger_type]

\* Sanity checkers: TRUE when the word passes.
SanityCheckIhw(ihw) == ihw.id = 224 /\ ihw.sane

SanityCheckTdh(tdh) == tdh.id = 232 /\ tdh.sane

SanityCheckTdt(tdt) == tdt.id = 240 /\ tdt.sane

SanityCheckDdw0(ddw0) == ddw0.id = 228 /\ ddw0.sane

\* DATA_WORD_SANITY_CHECKER.check_any: the ID is that of an IB or OB data word.
DataWordCheckAny(w) == (w.id \div 32) \in {1, 2}

is_lane_active(lane, active_lanes) == (active_lanes \div (2 ^ lane)) % 2 = 1

ob_data_word_id_to_input_number_connector(id) == id % 8

ob_data_word_id_to_lane(id) == ((id \div 8) % 4) * 7 + (id % 8)

is_pht_trigger(rdh) == (rdh.trigger_type \div 16) % 2 = 1

(***************************************************************************)
(* The payload state machine, ItsPayloadFsmContinuous::advance.  It labels *)
(* a word by the state it is in and, where a state accepts several kinds,  *)
(* by the word's ID; it never rejects a word.                              *)
(***************************************************************************)
FsmInitial == "S_Initial"

\* Mutant of Advance: in its initial state the machine takes a data word or a
\* CDW for what its ID says.
AdvanceByIdAtStart(state, w) ==
    IF state = "S_Initial" THEN
        IF w.id = 248 THEN [label |-> "CDW", next |-> "S_Data"]
        ELSE IF (w.id \div 32) \in {1, 2} THEN [label |-> "DataWord", next |-> "S_Data"]
        ELSE [label |-> "IHW", next |-> "S_AfterIHW"]
    ELSE IF state = "S_AfterIHW" THEN
        IF w.id = 224 THEN [label |-> "IHW_continuation", next |-> "S_AfterIHW"]
        ELSE [label |-> "TDH", next |-> "S_Data"]
    ELSE IF state = "S_Data" THEN
        IF w.id = 240 THEN
            [label |-> "TDT",
             next |-> IF w.packet_done = 1 THEN "S_AfterTDT_done" ELSE "S_AfterTDT_cont"]
        ELSE IF w.id = 248 THEN [label |-> "CDW", next |-> "S_Data"]
        ELSE [label |-> "DataWord", next |-> "S_Data"]
    ELSE \* after a TDT
        IF w.id = 228 THEN [label |-> "DDW0", next |-> "S_Initial"]
        ELSE IF state = "S_AfterTDT_done"
            THEN [label |-> "TDH_after_packet_done", next |-> "S_Data"]
        ELSE [label |-> "TDH_continuation", next |-> "S_Data"]

Advance(state, w) ==
    IF state = "S_Initial" THEN [label |-> "IHW", next |-> "S_AfterIHW"]
    ELSE IF state = "S_AfterIHW" THEN
        IF w.id = 224 THEN [label |-> "IHW_continuation", next |-> "S_AfterIHW"]
        ELSE [label |-> "TDH", next |-> "S_Data"]
    ELSE IF state = "S_Data" THEN
        IF w.id = 240 THEN
            [label |-> "TDT",
             next |-> IF w.packet_done = 1 THEN "S_AfterTDT_done" ELSE "S_AfterTDT_cont"]
        ELSE IF w.id = 248 THEN [label |-> "CDW", next |-> "S_Data"]
        ELSE [label |-> "DataWord", next |-> "S_Data"]
    ELSE \* after a TDT
        IF w.id = 228 THEN [label |-> "DDW0", next |-> "S_Initial"]
        ELSE IF state = "S_AfterTDT_done"
            THEN [label |-> "TDH_after_packet_done", next |-> "S_Data"]
        ELSE [label |-> "TDH_continuation", next |-> "S_Data"]

\* Mutant of TdhLabels: a TDH that continues a trigger is not taken as a TDH.
TdhLabelsNoContinuation == {"TDH", "TDH_after_packet_done"}

\* The labels of the words check() processes as TDHs: cdp_running.rs:178-189.
TdhLabels == {"TDH", "TDH_continuation", "TDH_after_packet_done"}

----------------------------------------------------------------------------
\* One call of report_error: the code and the rule (the message) reported.
Report(code, rule) == [code |-> code, rule |-> rule]

ReportIf(cond, code, rule) == IF cond THEN <<Report(code, rule)>> ELSE <<>>

\* Mutant of CalcCurrentWordMemPos: the counter is used as a 0-based index.
CalcCurrentWordMemPosNoMinusOne(counter, mem_pos, padding) ==
    counter * (10 + padding) + mem_pos

\* calc_current_word_mem_pos, cdp_running.rs:207-211; the counter is a u16.
CalcCurrentWordMemPos(counter, mem_pos, padding) ==
    ((counter - 1) % 65536) * (10 + padding) + mem_pos

\* Mutant of CheckRdhAtInitialIhw: the rule runs in every check mode.
CheckRdhAtInitialIhwUngated(rdh) ==
    ReportIf(rdh.stop_bit # 0, "E12", "ihw_rdh_stop_bit")

\* check_rdh_at_initial_ihw
CheckRdhAtInitialIhw(rdh) ==
    IF ~running_checks THEN <<>>
    ELSE ReportIf(rdh.stop_bit # 0, "E12", "ihw_rdh_stop_bit")

\* Mutant of CheckRdhAtDdw0: the pages counter is not looked at.
CheckRdhAtDdw0StopBitOnly(rdh) ==
    IF ~running_checks THEN <<>>
    ELSE ReportIf(rdh.stop_bit # 1, "E11", "ddw0_rdh_stop_bit")

\* check_rdh_at_ddw0
CheckRdhAtDdw0(rdh) ==
    IF ~running_checks THEN <<>>
    ELSE ReportIf(rdh.stop_bit # 1, "E11", "ddw0_rdh_stop_bit")
         \o ReportIf(rdh.pages_counter = 0, "E11", "ddw0_rdh_pages_counter")

\* Mutant of CheckTdhNoContinuation: bc and trigger type are compared on every page.
CheckTdhNoContinuationAnyPage(rdh, tdh) ==
    IF ~running_checks THEN <<>>
    ELSE ReportIf(tdh.continuation # 0, "E42", "tdh_continuation_not_0")
         \o ReportIf(tdh.trigger_orbit # rdh.orbit, "E44", "tdh_orbit_vs_rdh")
         \o (IF tdh.internal_trigger = 1 \/ is_pht_trigger(rdh)
             THEN ReportIf(rdh.bc # tdh.trigger_bc, "E44", "tdh_bc_vs_rdh")
                  \o ReportIf((rdh.trigger_type % 65536) % 4096 # tdh.trigger_type,
                              "E44", "tdh_trigger_type_vs_rdh")
             ELSE <<>>)

\* check_tdh_no_continuation
CheckTdhNoContinuation(rdh, tdh) ==
    IF ~running_checks THEN <<>>
    ELSE ReportIf(tdh.continuation # 0, "E42", "tdh_continuation_not_0")
         \o ReportIf(tdh.trigger_orbit # rdh.orbit, "E44", "tdh_orbit_vs_rdh")
         \o (IF rdh.pages_counter = 0 /\ (tdh.internal_trigger = 1 \/ is_pht_trigger(rdh))
             THEN ReportIf(rdh.bc # tdh.trigger_bc, "E44", "tdh_bc_vs_rdh")
                  \o ReportIf((rdh.trigger_type % 65536) % 4096 # tdh.trigger_type,
                              "E44", "tdh_trigger_type_vs_rdh")
             ELSE <<>>)

\* Mutant of CheckTdhContinuation: the trigger types are not compared.
CheckTdhContinuationNoType(tdh, prev) ==
    IF ~running_checks THEN <<>>
    ELSE ReportIf(tdh.continuation # 1, "E41", "tdh_continuation_not_1")
         \o (IF prev # None
             THEN ReportIf(Unwrap(prev).trigger_bc # tdh.trigger_bc, "E44", "tdh_bc_not_same")
                  \o ReportIf(Unwrap(prev).trigger_orbit # tdh.trigger_orbit,
                              "E44", "tdh_orbit_not_same")
             ELSE <<>>)

\* Mutant of CheckTdhContinuation: the orbit comparison repeats the bc comparison.
CheckTdhContinuationBcTwice(tdh, prev) ==
    IF ~running_checks THEN <<>>
    ELSE ReportIf(tdh.continuation # 1, "E41", "tdh_continuation_not_1")
         \o (IF prev # None
             THEN ReportIf(Unwrap(prev).trigger_bc # tdh.trigger_bc, "E44", "tdh_bc_not_same")
                  \o ReportIf(Unwrap(prev).trigger_bc # tdh.trigger_bc,
                              "E44", "tdh_bc_not_same")
                  \o ReportIf(Unwrap(prev).trigger_type # tdh.trigger_type,
                              "E44", "tdh_trigger_type_not_same")
             ELSE <<>>)

\* check_tdh_continuation
CheckTdhContinuation(tdh, prev) ==
    IF ~running_checks THEN <<>>
    ELSE ReportIf(tdh.continuation # 1, "E41", "tdh_continuation_not_1")
         \o (IF prev # None
             THEN ReportIf(Unwrap(prev).trigger_bc # tdh.trigger_bc, "E44", "tdh_bc_not_same")
                  \o ReportIf(Unwrap(prev).trigger_orbit # tdh.trigger_orbit,
                              "E44", "tdh_orbit_not_same")
                  \o ReportIf(Unwrap(prev).trigger_type # tdh.trigger_type,
                              "E44", "tdh_trigger_type_not_same")
             ELSE <<>>)

\* Mutant of CheckTdhByWasTdtPacketDoneTrue: an equal trigger_bc is rejected too.
CheckTdhByWasTdtPacketDoneTrueStrict(tdh, prev) ==
    IF ~running_checks THEN <<>>
    ELSE ReportIf(tdh.internal_trigger # 1, "E43", "tdh_internal_trigger_not_1")
         \o (IF prev # None
             THEN ReportIf(Unwrap(prev).trigger_bc >= tdh.trigger_bc,
                           "E44", "tdh_bc_not_increasing")
             ELSE <<>>)

\* check_tdh_by_was_tdt_packet_done_true
CheckTdhByWasTdtPacketDoneTrue(tdh, prev) ==
    IF ~running_checks THEN <<>>
    ELSE ReportIf(tdh.internal_trigger # 1, "E43", "tdh_internal_trigger_not_1")
         \o (IF prev # None
             THEN ReportIf(Unwrap(prev).trigger_bc > tdh.trigger_bc,
                           "E44", "tdh_bc_not_increasing")
             ELSE <<>>)

\* process_ib_data_word
ProcessIbDataWord(w, ihw) ==
    IF ~running_checks THEN <<>>
    ELSE ReportIf(~is_lane_active(w.id % 32, Unwrap(ihw).active_lanes),
                  "E72", "ib_lane_not_active")

\* Mutant of ProcessObDataWord: input connector 6 is rejected too.
ProcessObDataWordConnector6(w, ihw) ==
    IF ~running_checks THEN <<>>
    ELSE ReportIf(~is_lane_active(ob_data_word_id_to_lane(w.id), Unwrap(ihw).active_lanes),
                  "E71", "ob_lane_not_active")
         \o ReportIf(ob_data_word_id_to_input_number_connector(w.id) >= 6,
                     "E73", "ob_input_connector")

\* process_ob_data_word
ProcessObDataWord(w, ihw) ==
    IF ~running_checks THEN <<>>
    ELSE ReportIf(~is_lane_active(ob_data_word_id_to_lane(w.id), Unwrap(ihw).active_lanes),
                  "E71", "ob_lane_not_active")
         \o ReportIf(ob_data_word_id_to_input_number_connector(w.id) > 6,
                     "E73", "ob_input_connector")

\* Mutant of ProcessCdw: the calibration word index is not looked at.
ProcessCdwIndexIgnored(w, prev_cdw) ==
    IF ~running_checks THEN <<>>
    ELSE IF prev_cdw # None
        THEN ReportIf(Unwrap(prev_cdw).calibration_user_fields
                            # CdwLoad(w).calibration_user_fields,
                      "E81", "cdw_index_not_0")
    ELSE <<>>

\* process_cdw: the reports; the previous CDW is replaced in the action.
ProcessCdw(w, prev_cdw) ==
    IF ~running_checks THEN <<>>
    ELSE IF prev_cdw # None
        THEN ReportIf(Unwrap(prev_cdw).calibration_user_fields
                            # CdwLoad(w).calibration_user_fields
                      /\ CdwLoad(w).calibration_word_index # 0,
                      "E81", "cdw_index_not_0")
    ELSE <<>>

\* The branch of process_data_word taken: a CDW, or a regular data word.
IsCdwBranch(w) == is_new_data /\ w.id = 248

\* Mutant of ProcessDataWord: the ID of a regular data word is not checked.
ProcessDataWordNoSanity(w) ==
    IF IsCdwBranch(w) THEN ProcessCdw(w, previous_cdw)
    ELSE IF w.id \div 32 = 1 THEN ProcessIbDataWord(w, current_ihw)
    ELSE IF w.id \div 32 = 2 THEN ProcessObDataWord(w, current_ihw)
    ELSE <<>>

\* process_data_word: the reports.
ProcessDataWord(w) ==
    IF IsCdwBranch(w) THEN ProcessCdw(w, previous_cdw)
    ELSE ReportIf(~DataWordCheckAny(w), "E70", "sanity_data_word")
         \o (IF w.id \div 32 = 1 THEN ProcessIbDataWord(w, current_ihw)
             ELSE IF w.id \div 32 = 2 THEN ProcessObDataWord(w, current_ihw)
             ELSE <<>>)

\* An unwrap() of an empty slot that the word would reach.
UnwrapsNone(label, w) ==
    /\ running_checks
    /\ label \in {"CDW", "DataWord"}
    /\ ~IsCdwBranch(w)
    /\ (w.id \div 32) \in {1, 2}
    /\ current_ihw = None

\* Mutant of CheckReports: the check of a first TDH against the RDH runs before
\* the word is processed as a status word.
CheckReportsCrossFirst(label, w) ==
    IF label = "IHW"
        THEN ReportIf(~SanityCheckIhw(IhwLoad(w)), "E30", "sanity_ihw")
             \o CheckRdhAtInitialIhw(Unwrap(current_rdh))
    ELSE IF label = "IHW_continuation"
        THEN ReportIf(~SanityCheckIhw(IhwLoad(w)), "E30", "sanity_ihw")
    ELSE IF label = "TDH"
        THEN CheckTdhNoContinuation(Unwrap(current_rdh), TdhLoad(w))
             \o ReportIf(~SanityCheckTdh(TdhLoad(w)), "E40", "sanity_tdh")
    ELSE IF label = "TDH_continuation"
        THEN ReportIf(~SanityCheckTdh(TdhLoad(w)), "E40", "sanity_tdh")
             \o CheckTdhContinuation(TdhLoad(w), current_tdh)
    ELSE IF label = "TDH_after_packet_done"
        THEN ReportIf(~SanityCheckTdh(TdhLoad(w)), "E40", "sanity_tdh")
             \o CheckTdhByWasTdtPacketDoneTrue(TdhLoad(w), current_tdh)
    ELSE IF label = "TDT"
        THEN ReportIf(~SanityCheckTdt(TdtLoad(w)), "E50", "sanity_tdt")
    ELSE IF label = "DDW0"
        THEN ReportIf(~SanityCheckDdw0(Ddw0Load(w)), "E60", "sanity_ddw0")
             \o CheckRdhAtDdw0(Unwrap(current_rdh))
    ELSE ProcessDataWord(w)

\* Everything check() reports for a word with this label, in the order reported:
\* process_status_word / process_data_word first, then the state's own check.
CheckReports(label, w) ==
    IF label = "IHW"
        THEN ReportIf(~SanityCheckIhw(IhwLoad(w)), "E30", "sanity_ihw")
             \o CheckRdhAtInitialIhw(Unwrap(current_rdh))
    ELSE IF label = "IHW_continuation"
        THEN ReportIf(~SanityCheckIhw(IhwLoad(w)), "E30", "sanity_ihw")
    ELSE IF label = "TDH"
        THEN ReportIf(~SanityCheckTdh(TdhLoad(w)), "E40", "sanity_tdh")
             \o CheckTdhNoContinuation(Unwrap(current_rdh), TdhLoad(w))
    ELSE IF label = "TDH_continuation"
        THEN ReportIf(~SanityCheckTdh(TdhLoad(w)), "E40", "sanity_tdh")
             \o CheckTdhContinuation(TdhLoad(w), current_tdh)
    ELSE IF label = "TDH_after_packet_done"
        THEN ReportIf(~SanityCheckTdh(TdhLoad(w)), "E40", "sanity_tdh")
             \o CheckTdhByWasTdtPacketDoneTrue(TdhLoad(w), current_tdh)
    ELSE IF label = "TDT"
        THEN ReportIf(~SanityCheckTdt(TdtLoad(w)), "E50", "sanity_tdt")
    ELSE IF label = "DDW0"
        THEN ReportIf(~SanityCheckDdw0(Ddw0Load(w)), "E60", "sanity_ddw0")
             \o CheckRdhAtDdw0(Unwrap(current_rdh))
    ELSE ProcessDataWord(w)

hist_vars == <<rdh_arg, check_calls, words_processed, payload_words, last_label,
               last_word, word_errors, prev_reported>>

slot_vars == <<current_ihw, current_tdh, previous_tdh, current_tdt, current_ddw0, previous_cdw>>

\* The trace: the calls made on the validator (set_current_rdh, check with its
\* word, reset_fsm) and the labels check() got from the state machine.
NoTrace == [on |-> FALSE, fed |-> <<>>, labels |-> <<>>]

Traced(kind, w, label) ==
    IF ~trace.on THEN trace
    ELSE [on |-> TRUE,
          fed |-> Append(trace.fed, [kind |-> kind, w |-> w]),
          labels |-> IF kind = "word" THEN Append(trace.labels, label) ELSE trace.labels]

MaxOf(S, default) == IF S = {} THEN default ELSE CHOOSE x \in S : \A y \in S : y <= x

\* CdpRunningValidator::new / default: all slots empty, the state machine in
\* its initial state. default() holds a sender whose receiver is already gone.
InitValidatorWith(checks, alive) ==
    /\ running_checks = checks
    /\ its_state_machine = FsmInitial
    /\ current_rdh = None
    /\ current_ihw = None
    /\ current_tdh = None
    /\ previous_tdh = None
    /\ current_tdt = None
    /\ current_ddw0 = None
    /\ previous_cdw = None
    /\ gbt_word_counter = 0
    /\ payload_mem_pos = 0
    /\ gbt_word_padding_size_bytes = 0
    /\ is_new_data = FALSE
    /\ stats_rx_alive = alive
    /\ panicked = FALSE
    /\ rdh_arg = [rdh_mem_pos |-> 0, data_format |-> 0, n |-> 0]
    /\ check_calls = 0
    /\ words_processed = 0
    /\ payload_words = 0
    /\ last_label = "none"
    /\ last_word = ZeroWord
    /\ word_errors = <<>>
    /\ prev_reported = -1

----------------------------------------------------------------------------
\* spawn_reader: lib.rs:48-56, the state when the reader thread starts.
InitReaderWith(i) ==
    /\ input = i
    /\ input_scanner = 0
    /\ stop_flag = FALSE
    /\ local_stop_on_non_full_chunk = FALSE
    /\ reader_pc = "head"
    /\ cdps = <<>>
    /\ send_channel = <<>>
    /\ sink_pc = "head"
    /\ get_chunk_ret = NoGetChunk
    /\ get_chunk_calls = 0
    /\ sent = <<>>
    /\ received = <<>>
    /\ after_stop = NothingAfterStop

\* No RDH is being loaded: an empty source and no call made.
InitLoadIdle ==
    /\ version = "V7"
    /\ source = <<>>
    /\ load_ret = None
    /\ load_panicked = FALSE
    /\ byte_slice = None
    /\ rdh_copy = None

\* Rdh0Validator::new(0x40, FEE_ID_SANITY_VALIDATOR, 0, system_id): rdh.rs:220-235.
Rdh0ValidatorNew(system_id) ==
    [header_id |-> None, header_size |-> 64, priority_bit |-> 0,
     system_id |-> system_id, reserved0 |-> 0]

\* RdhCruSanityValidator::new(): rdh.rs:43-51 with Rdh0Validator::default(),
\* rdh.rs:214-218.
InitSanityIdle ==
    /\ rdh0_validator = Rdh0ValidatorNew(None)
    /\ sanity_last = [op |-> "new"]
    /\ sanity_calls = 0
    /\ first_header_id = None
    /\ specialization = "none"

\* BufferedWriter::new(config, max_buffer_size): writer.rs:52-57, in a build
\* with (debug) or without debug assertions.
InitWriterBuild(size, debug) ==
    /\ filtered_rdhs_buffer = <<>>
    /\ filtered_payload_buffers = <<>>
    /\ max_buffer_size = size
    /\ writer_pc = "open"
    /\ written = <<>>
    /\ flushes = 0
    /\ pushed = <<>>
    /\ debug_assertions = debug
    /\ owed = 0
    /\ flush_mismatch = "none"
    /\ flush_ret = "none"
    /\ flush_returns = 0

InitWriterWith(size) == InitWriterBuild(size, TRUE)

\* What the view records of its calls before the first one: the number of
\* calls, and for each CDP of the last chunk what the loop did with it.
NoCdpShown == [calls |-> 0, cdps |-> <<>>, panicked |-> FALSE]

\* hbf_view with the chunk it is given; the payload state machine is the one
\* its caller constructed (hbf_view.rs:8-12).
InitViewWith(chunk) ==
    /\ view_chunk = chunk
    /\ view_fsm = FsmInitial
    /\ view_stats = <<>>
    /\ view_lines = <<>>
    /\ view_last = NoCdpShown

\* FilterLink::new(config, max_buffer_size): src/src/lib.rs:226-233, with
\* the payloads the reader holds behind the RDHs.
InitFilterWith(link, size, payloads) ==
    /\ link_to_filter = link
    /\ filter_max_buffer_size = size
    /\ filter_rdhs_buffer = <<>>
    /\ filter_payload_buffers = <<>>
    /\ total_filtered = 0
    /\ filter_input = payloads
    /\ filter_pc = "open"
    /\ filter_ret = "none"
    /\ filter_out = <<>>

\* The view and the link filter before any call.
InitToolIdle ==
    /\ InitViewWith(<<>>)
    /\ InitFilterWith(0, 1, <<>>)

\* The RDH loader, the RDH sanity validator and the writer before any call.
InitRdhIoIdle ==
    /\ InitLoadIdle
    /\ InitSanityIdle
    /\ InitWriterWith(1)
    /\ InitToolIdle

\* In the pipeline runs the validator stays as constructed.
InitReader ==
    /\ \E i \in FiniteInputs : ValidInput(i) /\ InitReaderWith(i)
    /\ InitValidatorWith(FALSE, TRUE)
    /\ trace = NoTrace
    /\ InitRdhIoIdle

NextReader ==
    \/ ReaderCheckStop
    \/ ReaderGetChunk
    \/ ReaderSend
    \/ ReaderSendFailed
    \/ ReaderSendOk
    \/ SinkCheckStop
    \/ SinkRecv
    \/ SinkDisconnected
    \/ SinkAbort
    \/ SetStopFlag

SpecReader == InitReader /\ [][NextReader]_vars

\* The same pipeline on finite and endless inputs, with both threads scheduled
\* fairly: each is an OS thread that runs whenever it is not blocked.
InitLive ==
    /\ \E i \in {j \in FiniteInputs : ValidInput(j)} \cup {EndlessInput} : InitReaderWith(i)
    /\ InitValidatorWith(FALSE, TRUE)
    /\ trace = NoTrace
    /\ InitRdhIoIdle

LiveReader == InitLive /\ [][NextReader]_vars /\ WF_vars(Reader) /\ WF_vars(Sink)

Range(seq) == {seq[k] : k \in 1..Len(seq)}

\* Bounds of the validator runs: check() calls per run, payloads per run.
MaxChecks == 4

MaxPayloads == 2

\* Mutant of SetCurrentRdh: a new payload restarts the payload state machine.
SetCurrentRdhResetsFsm(rdh, rdh_mem_pos) ==
    /\ ~panicked
    /\ rdh_arg.n < MaxPayloads
    /\ current_rdh' = Some(RdhCopy(rdh))
    /\ payload_mem_pos' = rdh_mem_pos + 64
    /\ gbt_word_padding_size_bytes' = IF rdh.data_format = 0 THEN 6 ELSE 0
    /\ is_new_data' = TRUE
    /\ gbt_word_counter' = 0
    /\ rdh_arg' = [rdh_mem_pos |-> rdh_mem_pos, data_format |-> rdh.data_format,
                   n |-> rdh_arg.n + 1]
    /\ payload_words' = 0
    /\ word_errors' = <<>>
    /\ prev_reported' = -1
    /\ its_state_machine' = FsmInitial
    /\ UNCHANGED <<running_checks, slot_vars, stats_rx_alive, panicked,
                   check_calls, words_processed, last_label, last_word>>
    /\ trace' = Traced("rdh", rdh, "none")
    /\ UNCHANGED <<reader_vars, rdh_io_vars, tool_vars>>

\* set_current_rdh(rdh, rdh_mem_pos): cdp_running.rs:151-161.
SetCurrentRdh(rdh, rdh_mem_pos) ==
    /\ ~panicked
    /\ rdh_arg.n < MaxPayloads
    /\ current_rdh' = Some(RdhCopy(rdh))
    /\ payload_mem_pos' = rdh_mem_pos + 64
    /\ gbt_word_padding_size_bytes' = IF rdh.data_format = 0 THEN 6 ELSE 0
    /\ is_new_data' = TRUE
    /\ gbt_word_counter' = 0
    /\ rdh_arg' = [rdh_mem_pos |-> rdh_mem_pos, data_format |-> rdh.data_format,
                   n |-> rdh_arg.n + 1]
    /\ payload_words' = 0
    /\ word_errors' = <<>>
    /\ prev_reported' = -1
    /\ UNCHANGED <<running_checks, its_state_machine, slot_vars, stats_rx_alive, panicked,
                   check_calls, words_processed, last_label, last_word>>
    /\ trace' = Traced("rdh", rdh, "none")
    /\ UNCHANGED <<reader_vars, rdh_io_vars, tool_vars>>

\* check(gbt_word): cdp_running.rs:165-197 with everything it calls. The callers
\* set the RDH of a payload before they check its words. A report sent on a
\* channel whose receiver is gone panics (the expect of report_error), and so
\* does an unwrap of an empty slot.
Check(w) ==
    /\ ~panicked
    /\ current_rdh # None
    /\ check_calls < MaxChecks
    /\ LET counter == (gbt_word_counter + 1) % 65536
           adv == Advance(its_state_machine, w)
           label == adv.label
           reports == CheckReports(label, w)
           pos == CalcCurrentWordMemPos(counter, payload_mem_pos,
                                        gbt_word_padding_size_bytes)
           errors == [k \in 1..Len(reports) |->
                        [pos |-> pos, code |-> reports[k].code, rule |-> reports[k].rule,
                         counter |-> counter]]
       IN
        /\ check_calls' = check_calls + 1
        /\ payload_words' = payload_words + 1
        /\ IF UnwrapsNone(label, w) \/ (reports # <<>> /\ ~stats_rx_alive)
            THEN /\ panicked' = TRUE
                 /\ UNCHANGED <<its_state_machine, current_rdh, slot_vars, gbt_word_counter,
                                payload_mem_pos, gbt_word_padding_size_bytes, is_new_data,
                                words_processed, last_label, last_word, word_errors,
                                prev_reported, trace>>
            ELSE /\ gbt_word_counter' = counter
                 /\ its_state_machine' = adv.next
                 /\ current_ihw' = IF label \in {"IHW", "IHW_continuation"}
                                    THEN Some(IhwLoad(w)) ELSE current_ihw
                 /\ current_tdh' = IF label \in TdhLabels THEN Some(TdhLoad(w)) ELSE current_tdh
                 /\ previous_tdh' = IF label \in TdhLabels THEN current_tdh ELSE previous_tdh
                 /\ current_tdt' = IF label = "TDT" THEN Some(TdtLoad(w)) ELSE current_tdt
                 /\ current_ddw0' = IF label = "DDW0" THEN Some(Ddw0Load(w)) ELSE current_ddw0
                 /\ previous_cdw' = IF label \in {"CDW", "DataWord"} /\ IsCdwBranch(w)
                                        /\ running_checks
                                     THEN Some(CdwLoad(w)) ELSE previous_cdw
                 /\ is_new_data' = IF label \in {"CDW", "DataWord"} THEN FALSE ELSE is_new_data
                 /\ words_processed' = words_processed + 1
                 /\ last_label' = label
                 /\ last_word' = w
                 /\ trace' = Traced("word", w, label)
                 /\ word_errors' = errors
                 /\ prev_reported' = MaxOf({e.pos : e \in Range(word_errors)} \cup {prev_reported}, -1)
                 /\ UNCHANGED <<current_rdh, payload_mem_pos, gbt_word_padding_size_bytes,
                                panicked>>
    /\ UNCHANGED <<running_checks, stats_rx_alive, rdh_arg>>
    /\ UNCHANGED <<reader_vars, rdh_io_vars, tool_vars>>

\* Mutant of ResetFsm: the call leaves the state machine where it is.
ResetFsmKeepsState ==
    /\ ~panicked
    /\ its_state_machine # FsmInitial
    /\ its_state_machine' = its_state_machine
    /\ UNCHANGED <<running_checks, current_rdh, slot_vars, gbt_word_counter, payload_mem_pos,
                   gbt_word_padding_size_bytes, is_new_data, stats_rx_alive, panicked,
                   hist_vars>>
    /\ trace' = Traced("reset", ZeroWord, "none")
    /\ UNCHANGED <<reader_vars, rdh_io_vars, tool_vars>>

\* reset_fsm(): cdp_running.rs:141-144.
ResetFsm ==
    /\ ~panicked
    /\ its_state_machine # FsmInitial
    /\ its_state_machine' = FsmInitial
    /\ UNCHANGED <<running_checks, current_rdh, slot_vars, gbt_word_counter, payload_mem_pos,
                   gbt_word_padding_size_bytes, is_new_data, stats_rx_alive, panicked,
                   hist_vars>>
    /\ trace' = Traced("reset", ZeroWord, "none")
    /\ UNCHANGED <<reader_vars, rdh_io_vars, tool_vars>>

\* A validator built by default() sends to a channel whose receiver is already
\* dropped (cdp_running.rs:77); one built by new() sends to the caller's channel.
InitValidator ==
    /\ \E checks \in BOOLEAN, alive \in BOOLEAN : InitValidatorWith(checks, alive)
    /\ trace = NoTrace
    /\ InitReaderWith([good |-> 0, err |-> "UnexpectedEof", more |-> 0])
    /\ InitRdhIoIdle

NextValidator ==
    \/ \E p \in Payloads : SetCurrentRdh(p.rdh, p.rdh_mem_pos)
    \/ \E w \in GbtWords : Check(w)
    \/ ResetFsm

SpecValidator == InitValidator /\ [][NextValidator]_vars

----------------------------------------------------------------------------
(***************************************************************************)
(* Properties of the reader-to-sink pipeline.                              *)
(***************************************************************************)
RECURSIVE Flatten(_)
Flatten(chunks) == IF chunks = <<>> THEN <<>> ELSE Head(chunks) \o Flatten(Tail(chunks))

IsPrefix(s, t) == Len(s) <= Len(t) /\ \A k \in 1..Len(s) : s[k] = t[k]

\* The reader is in send() on a full channel whose receiver lives.
BlockedInSend ==
    reader_pc = "send" /\ Len(send_channel) = CHANNEL_CDP_CHUNK_CAPACITY /\ sink_pc # "done"

\* C1: back-pressure. The chunks sent never exceed the chunks received plus the
\* channel capacity, and a reader blocked in send on a full channel does nothing
\* (no read, no get_chunk call, no send) in any step but one in which the sink
\* receives a chunk.
C1_BackPressure ==
    /\ [](Len(sent) <= Len(received) + CHANNEL_CDP_CHUNK_CAPACITY)
    /\ [][BlockedInSend =>
            \/ received' # received
            \/ /\ reader_pc' = reader_pc
               /\ cdps' = cdps
               /\ input_scanner' = input_scanner
               /\ get_chunk_calls' = get_chunk_calls
               /\ sent' = sent]_vars

\* The sink has received a chunk and the reader is blocked on the full channel.
C1_Witness == BlockedInSend /\ Len(received) >= 1

\* C2: order. The chunks received are the first chunks sent, in the order sent,
\* and their concatenation is a prefix of the CDPs load_cdp returned.
C2_Order ==
    /\ IsPrefix(received, sent)
    /\ IsPrefix(Flatten(received), LoadedCdps)
    /\ IsPrefix(Flatten(sent \o (IF cdps = <<>> THEN <<>> ELSE <<cdps>>)), LoadedCdps)

\* Two chunks received, the second one cut short by invalid data.
C2_Witness ==
    /\ Len(received) = 2
    /\ Len(received[2]) = 2
    /\ get_chunk_ret.failed = "InvalidData"

CleanInput == input.err = "UnexpectedEof" /\ input.good >= 1

AllCdps == [k \in 1..input.good |-> k]

\* C3: clean drain. With no shutdown request and a sink that does not give up, a
\* clean input of M >= 1 CDPs is sent whole, each CDP once and in order, and
\* the reader terminates.
C3_CleanDrain ==
    (CleanInput /\ []~stop_flag /\ [](sink_pc = "done" => reader_pc = "done"))
        => <>(reader_pc = "done" /\ Flatten(sent) = AllCdps)

\* An input of exactly two full chunks has been sent whole and the reader is done.
C3_Witness ==
    /\ CleanInput
    /\ input.good = 2 * CDP_CHUNK_SIZE
    /\ ~stop_flag
    /\ reader_pc = "done"
    /\ Flatten(sent) = AllCdps
    /\ get_chunk_calls = 3

ChunkSizeOk(chunk) == Len(chunk) >= 1 /\ Len(chunk) <= CDP_CHUNK_SIZE

\* C4: no empty chunk. get_chunk returns an error or a chunk of 1..CDP_CHUNK_SIZE
\* CDPs; when its first load_cdp fails with UnexpectedEof or InvalidData it
\* returns UnexpectedEof; every chunk on the channel holds 1..CDP_CHUNK_SIZE CDPs.
C4_NoEmptyChunk ==
    /\ get_chunk_ret.ret = "Ok" => ChunkSizeOk(get_chunk_ret.chunk)
    /\ (get_chunk_ret.ret # "none" /\ get_chunk_ret.first \in {"UnexpectedEof", "InvalidData"})
            => (get_chunk_ret.ret = "Err" /\ get_chunk_ret.err = "UnexpectedEof")
    /\ reader_pc = "send" => ChunkSizeOk(cdps)
    /\ \A k \in 1..Len(send_channel) : ChunkSizeOk(send_channel[k])
    /\ \A k \in 1..Len(sent) : ChunkSizeOk(sent[k])

\* A later get_chunk call met invalid data at once and returned UnexpectedEof.
C4_Witness ==
    /\ get_chunk_calls >= 2
    /\ get_chunk_ret.first = "InvalidData"
    /\ get_chunk_ret.ret = "Err"
    /\ get_chunk_ret.err = "UnexpectedEof"

\* C5: a short chunk ends the reader. After a chunk shorter than CDP_CHUNK_SIZE
\* the reader goes on to send it and never calls get_chunk again, so only the
\* last chunk sent can be short; after a get_chunk error the reader is done,
\* and a reader that is done stays done and sends nothing.
C5_ShortChunkStops ==
    /\ [](/\ \A k \in 1..(Len(sent) - 1) : Len(sent[k]) = CDP_CHUNK_SIZE
          /\ get_chunk_ret.ret = "Err" => reader_pc = "done"
          /\ local_stop_on_non_full_chunk => reader_pc # "read"
          /\ (get_chunk_ret.ret = "Ok" /\ reader_pc = "send") => cdps = get_chunk_ret.chunk)
    /\ [][/\ local_stop_on_non_full_chunk => get_chunk_calls' = get_chunk_calls
          /\ reader_pc = "done" => (reader_pc' = "done" /\ sent' = sent
                                     /\ get_chunk_calls' = get_chunk_calls)]_vars

\* A full chunk and then a short one were sent, and the reader stopped on it.
C5_Witness ==
    /\ local_stop_on_non_full_chunk
    /\ reader_pc = "done"
    /\ Len(sent) = 2
    /\ Len(sent[2]) < CDP_CHUNK_SIZE
    /\ ~stop_flag

\* C6: shutdown. Once the stop flag is set the reader thread terminates.
C6_ShutdownTerminates == stop_flag ~> (reader_pc = "done")

\* The flag is set and a send that was blocked on the full channel has failed.
C6_Witness ==
    /\ stop_flag
    /\ reader_pc = "send_err"
    /\ Len(send_channel) = CHANNEL_CDP_CHUNK_CAPACITY

\* C7: get_chunk returns an error only when load_cdp failed before any CDP was
\* read in the call; after one or more CDPs it returns them, whatever the error.
C7_PartialChunkOnAnyError ==
    /\ get_chunk_ret.ret = "Err" => get_chunk_ret.nread = 0
    /\ (get_chunk_ret.failed # "none" /\ get_chunk_ret.nread >= 1)
            => (get_chunk_ret.ret = "Ok" /\ Len(get_chunk_ret.chunk) = get_chunk_ret.nread)

(***************************************************************************)
(* Properties of the running validator.                                    *)
(***************************************************************************)

\* C8: a violation never stops validation: no check() call panics, and every
\* check() call so far has processed its word to the end.
C8_ViolationNeverStops ==
    /\ ~panicked
    /\ words_processed = check_calls

\* The stride of the words of the payload set by the last set_current_rdh.
Stride == IF rdh_arg.data_format = 0 THEN 16 ELSE 10

CrossWordCodes == {"E11", "E12", "E41", "E42", "E43", "E44", "E71", "E72", "E73", "E81"}

\* How many errors of the last word checked carry code c.
CountCode(c) == Cardinality({k \in 1..Len(word_errors) : word_errors[k].code = c})

\* C10 as stated: no word produces two errors with the same cross-word code.
C10_OnePerCode ==
    \A c \in CrossWordCodes : CountCode(c) <= 1

\* C10: no word produces two errors of the same individual rule; errors that
\* share a code can repeat, up to three E44 for one TDH and two E11 for one
\* DDW0, and every other cross-word code occurs at most once per word.
C10_OnePerRule ==
    /\ \A k1, k2 \in 1..Len(word_errors) :
            word_errors[k1].rule = word_errors[k2].rule => k1 = k2
    /\ \A c \in CrossWordCodes :
            CountCode(c) <= (IF c = "E44" THEN 3 ELSE IF c = "E11" THEN 2 ELSE 1)
    /\ CountCode("E44") >= 2 => last_label \in TdhLabels
    /\ CountCode("E11") >= 2 => last_label = "DDW0"

\* C10 happens: a TDH that continues a trigger differs from the previous TDH in
\* bc, orbit and trigger type, and gets three E44 errors.
C10_Witness ==
    /\ last_label = "TDH_continuation"
    /\ CountCode("E44") = 3

(***************************************************************************)
(* The rules of the running validator, word kind by word kind.  A state    *)
(* just after check() holds the word in last_word, its label in last_label *)
(* and what the call reported in word_errors.                              *)
(***************************************************************************)
SanityCodes == {"E30", "E40", "E50", "E60", "E70"}

HasCode(c) == CountCode(c) >= 1

HasRule(r) == \E k \in 1..Len(word_errors) : word_errors[k].rule = r

\* The last call on the validator was a check() that ran to its end and gave
\* the word this label.
JustChecked(label) == ~panicked /\ payload_words >= 1 /\ last_label = label

\* C11: with running checks disabled check() emits sanity errors only; and in
\* both modes a word taken for an IHW, TDH, TDT or DDW0 that fails its sanity
\* check gets E30, E40, E50 or E60, and a regular data word with no data-word
\* ID gets E70.
C11_SanityAlwaysRunningGated ==
    /\ ~running_checks => \A k \in 1..Len(word_errors) : word_errors[k].code \in SanityCodes
    /\ (JustChecked("IHW") \/ JustChecked("IHW_continuation"))
            => (HasCode("E30") <=> ~SanityCheckIhw(IhwLoad(last_word)))
    /\ (\E l \in TdhLabels : JustChecked(l))
            => (HasCode("E40") <=> ~SanityCheckTdh(TdhLoad(last_word)))
    /\ JustChecked("TDT") => (HasCode("E50") <=> ~SanityCheckTdt(TdtLoad(last_word)))
    /\ JustChecked("DDW0") => (HasCode("E60") <=> ~SanityCheckDdw0(Ddw0Load(last_word)))
    /\ (JustChecked("DataWord") /\ last_word.id # 248)
            => (HasCode("E70") <=> ~DataWordCheckAny(last_word))

\* C11 happens: running checks are disabled, the first word of a payload whose
\* RDH has the stop bit set is no IHW, and E30 is all that is reported.
C11_Witness ==
    /\ ~running_checks
    /\ JustChecked("IHW")
    /\ Unwrap(current_rdh).stop_bit = 1
    /\ HasCode("E30")
    /\ Len(word_errors) = 1

(***************************************************************************)
(* Runs of the validator that keep the trace of the calls made, over the   *)
(* words that drive the state machine.                                     *)
(***************************************************************************)
FsmWords ==
    {w \in GbtWords : w.id \in {224, 240, 228, 32, 243, 248}}
        \cup {[ZeroWord EXCEPT !.id = 232, !.internal_trigger = 1, !.trigger_type = 16]}

InitFsm ==
    /\ \E checks \in BOOLEAN : InitValidatorWith(checks, TRUE)
    /\ trace = [NoTrace EXCEPT !.on = TRUE]
    /\ InitReaderWith([good |-> 0, err |-> "UnexpectedEof", more |-> 0])
    /\ InitRdhIoIdle

\* Bound of the traced runs: calls made on the validator.
MaxTrace == 5

NextFsm ==
    \/ Len(trace.fed) < MaxTrace /\ \E p \in Payloads : SetCurrentRdh(p.rdh, p.rdh_mem_pos)
    \/ Len(trace.fed) < MaxTrace /\ \E w \in FsmWords : Check(w)
    \/ Len(trace.fed) < MaxTrace /\ ResetFsm

SpecFsm == InitFsm /\ [][NextFsm]_vars

\* The state of the machine after the calls of `fed`, started in `state`.
RECURSIVE RunState(_, _)
RunState(state, fed) ==
    IF fed = <<>> THEN state
    ELSE LET c == Head(fed) IN
         RunState(IF c.kind = "reset" THEN FsmInitial
                  ELSE IF c.kind = "word" THEN Advance(state, c.w).next
                  ELSE state,
                  Tail(fed))

\* The labels of the words of `fed`, for a machine started in `state`.
RECURSIVE RunLabels(_, _)
RunLabels(state, fed) ==
    IF fed = <<>> THEN <<>>
    ELSE LET c == Head(fed) IN
         (IF c.kind = "word" THEN <<Advance(state, c.w).label>> ELSE <<>>)
            \o RunLabels(RunState(state, <<c>>), Tail(fed))

NoReset == \A k \in 1..Len(trace.fed) : trace.fed[k].kind # "reset"

\* The words checked so far in the traced run, in order.
FedWords == SelectSeq(trace.fed, LAMBDA c : c.kind = "word")

\* The traced run just checked its n-th word since the initial state.
JustCheckedNth(n) ==
    /\ trace.on /\ NoReset /\ ~panicked
    /\ Len(trace.labels) = n
    /\ trace.fed[Len(trace.fed)].kind = "word"

\* Every error of the last word is at the i-th word position of the first payload.
AllErrorsAtWord(i) ==
    \A k \in 1..Len(word_errors) :
        word_errors[k].pos = rdh_arg.rdh_mem_pos + 64 + (i - 1) * Stride

DataWords ==
    { [ZeroWord EXCEPT !.id = 224, !.active_lanes = 65],     \* IHW, lanes 0 and 6
      [ZeroWord EXCEPT !.id = 224, !.active_lanes = 130],    \* IHW, lanes 1 and 7
      [ZeroWord EXCEPT !.id = 232, !.internal_trigger = 1, !.trigger_type = 16],
      [ZeroWord EXCEPT !.id = 32],                           \* IB, lane 0
      [ZeroWord EXCEPT !.id = 33],                           \* IB, lane 1
      [ZeroWord EXCEPT !.id = 70],                           \* OB, lane 6, input 6
      [ZeroWord EXCEPT !.id = 71] }                          \* OB, lane 7, input 7

InitTraced ==
    /\ InitValidatorWith(TRUE, TRUE)
    /\ trace = [NoTrace EXCEPT !.on = TRUE]
    /\ InitReaderWith([good |-> 0, err |-> "UnexpectedEof", more |-> 0])
    /\ InitRdhIoIdle

NextData ==
    \/ Len(trace.fed) < MaxTrace /\ \E p \in Payloads : SetCurrentRdh(p.rdh, p.rdh_mem_pos)
    \/ Len(trace.fed) < MaxTrace /\ \E w \in DataWords : Check(w)
    \/ Len(trace.fed) < MaxTrace /\ ResetFsm

SpecData == InitTraced /\ [][NextData]_vars

\* The words of the traced run that got one of these labels, in order; the last
\* word processed as an IHW is the most recently processed IHW.
FedLabelled(labels) ==
    LET words == FedWords
        pairs == [j \in 1..Len(words) |-> [w |-> words[j].w, label |-> trace.labels[j]]]
    IN SelectSeq(pairs, LAMBDA x : x.label \in labels)

FedIhws ==
    LET ihws == FedLabelled({"IHW", "IHW_continuation"})
    IN [k \in 1..Len(ihws) |-> ihws[k].w]

LastIhwLanes == FedIhws[Len(FedIhws)].active_lanes

LaneActive(lane) == (LastIhwLanes \div (2 ^ lane)) % 2 = 1

\* C14: with running checks, a word classified DataWord with an inner-barrel ID
\* gets E72 exactly when its lane (the low 5 bits of the ID) is not among the
\* active lanes of the IHW processed last; one with an outer-barrel ID gets E71
\* exactly when its lane is not among them and E73 exactly when its input
\* connector is above 6.
C14_LaneRules ==
    (trace.on /\ running_checks /\ JustChecked("DataWord")
            /\ trace.fed[Len(trace.fed)].kind = "word") =>
        /\ last_word.id \div 32 = 1 =>
                /\ HasCode("E72") <=> ~LaneActive(last_word.id % 32)
                /\ ~HasCode("E71") /\ ~HasCode("E73")
        /\ last_word.id \div 32 = 2 =>
                /\ HasCode("E71") <=> ~LaneActive(ob_data_word_id_to_lane(last_word.id))
                /\ HasCode("E73") <=> (last_word.id % 8) > 6
                /\ ~HasCode("E72")

\* C14 happens: after an IHW and a later IHW with other lanes, an outer-barrel
\* word on input 6 gets E71 for its lane, inactive by the later IHW, and no E73.
C14_Witness ==
    /\ trace.on /\ running_checks /\ JustChecked("DataWord")
    /\ trace.fed[Len(trace.fed)].kind = "word"
    /\ Len(FedIhws) = 2
    /\ FedIhws[1].active_lanes = 65
    /\ LastIhwLanes = 130
    /\ last_word.id = 70
    /\ HasCode("E71") /\ ~HasCode("E73")

(***************************************************************************)
(* The calibration data word.                                              *)
(***************************************************************************)

\* C15: a 0xF8 word handed to the data-word processing after another word of
\* the same payload is not taken as a CDW: it is reported as E70.
C15_CdwOnlyFirstWord ==
    (~panicked /\ payload_words >= 2 /\ last_label \in {"CDW", "DataWord"}
            /\ last_word.id = 248)
        => HasCode("E70")

(***************************************************************************)
(* Traced runs with running checks over trigger words: TDHs that differ in *)
(* every field the rules read, under RDHs with and without a physics       *)
(* trigger, on a first and on a later page.                                *)
(***************************************************************************)
TdhOf(c, i, bc, o, t) ==
    [ZeroWord EXCEPT !.id = 232, !.continuation = c, !.internal_trigger = i,
                     !.trigger_bc = bc, !.trigger_orbit = o, !.trigger_type = t]

TdhWords ==
    { [ZeroWord EXCEPT !.id = 224, !.active_lanes = 1],
      TdhOf(0, 1, 0, 0, 16), TdhOf(1, 0, 1, 1, 17), TdhOf(0, 0, 1, 0, 17),
      [ZeroWord EXCEPT !.id = 240],
      [ZeroWord EXCEPT !.id = 240, !.packet_done = 1] }

TdhPayloads ==
    {[rdh |-> RdhOf(0, 0, 2, 4112), rdh_mem_pos |-> 0],     \* first page, physics trigger
     [rdh |-> RdhOf(0, 0, 2, 2), rdh_mem_pos |-> 0],        \* first page, no physics trigger
     [rdh |-> RdhOf(1, 1, 0, 16), rdh_mem_pos |-> 5088]}    \* later page

\* Bound of these runs: calls made on the validator, enough for a second TDH
\* in a second payload.
MaxTdhTrace == 6

NextTdh ==
    \/ Len(trace.fed) < MaxTdhTrace /\ \E p \in TdhPayloads : SetCurrentRdh(p.rdh, p.rdh_mem_pos)
    \/ Len(trace.fed) < MaxTdhTrace /\ \E w \in TdhWords : Check(w)
    \/ Len(trace.fed) < MaxTdhTrace /\ ResetFsm

SpecTdh == InitTraced /\ [][NextTdh]_vars

\* The RDH of the latest set_current_rdh call of the traced run.
FedRdhs == SelectSeq(trace.fed, LAMBDA c : c.kind = "rdh")

LastRdh == FedRdhs[Len(FedRdhs)].w

\* The words of the traced run processed as TDHs, the last one being the word
\* just checked when that word is a TDH.
FedTdhs == FedLabelled(TdhLabels)

\* A traced run with running checks just checked a word that got this label.
JustCheckedTraced(label) ==
    /\ trace.on /\ running_checks /\ JustChecked(label)
    /\ trace.fed[Len(trace.fed)].kind = "word"

Bit(b) == IF b THEN 1 ELSE 0

\* C16: with running checks, a word classified TDH gets E42 exactly when its
\* continuation is not 0, an E44 exactly when its orbit is not the RDH's, and
\* the E44s for a bc other than the RDH's and for a trigger type other than the
\* RDH's low 12 bits only when the RDH's pages_counter is 0 and the TDH has
\* internal_trigger 1 or the RDH carries a physics trigger.
C16_TdhFirst ==
    JustCheckedTraced("TDH") =>
        LET compared == LastRdh.pages_counter = 0
                        /\ (last_word.internal_trigger = 1 \/ is_pht_trigger(LastRdh))
        IN
        /\ HasCode("E42") <=> last_word.continuation # 0
        /\ HasRule("tdh_orbit_vs_rdh") <=> last_word.trigger_orbit # LastRdh.orbit
        /\ HasRule("tdh_bc_vs_rdh") <=> (compared /\ last_word.trigger_bc # LastRdh.bc)
        /\ HasRule("tdh_trigger_type_vs_rdh")
                <=> (compared /\ last_word.trigger_type # LastRdh.trigger_type % 4096)
        /\ CountCode("E44") = Bit(HasRule("tdh_orbit_vs_rdh")) + Bit(HasRule("tdh_bc_vs_rdh"))
                                + Bit(HasRule("tdh_trigger_type_vs_rdh"))
        /\ ~HasCode("E41") /\ ~HasCode("E43")

\* C16 happens: on a first page without a physics trigger a TDH without
\* internal trigger differs from the RDH in bc and trigger type and gets no E44.
C16_Witness ==
    /\ JustCheckedTraced("TDH")
    /\ LastRdh.pages_counter = 0 /\ ~is_pht_trigger(LastRdh)
    /\ last_word.internal_trigger = 0
    /\ last_word.trigger_bc # LastRdh.bc
    /\ last_word.trigger_type # LastRdh.trigger_type % 4096
    /\ ~HasCode("E44")

\* A TDH was processed before the TDH just checked.
HasPreviousTdh == Len(FedTdhs) >= 2

\* The TDH processed immediately before the TDH just checked.
PreviousTdh == FedTdhs[Len(FedTdhs) - 1].w

\* C17: with running checks, a word classified TDH_continuation gets E41 exactly
\* when its continuation is not 1, and an E44 for each of trigger_bc,
\* trigger_orbit and trigger_type that differs from the TDH processed
\* immediately before, in whatever payload that one was; with no previous TDH
\* it can get E41 only.
C17_TdhContinuation ==
    JustCheckedTraced("TDH_continuation") =>
        /\ HasCode("E41") <=> last_word.continuation # 1
        /\ HasPreviousTdh =>
            /\ HasRule("tdh_bc_not_same") <=> last_word.trigger_bc # PreviousTdh.trigger_bc
            /\ HasRule("tdh_orbit_not_same")
                    <=> last_word.trigger_orbit # PreviousTdh.trigger_orbit
            /\ HasRule("tdh_trigger_type_not_same")
                    <=> last_word.trigger_type # PreviousTdh.trigger_type
            /\ HasCode("E44") <=> \/ last_word.trigger_bc # PreviousTdh.trigger_bc
                                  \/ last_word.trigger_orbit # PreviousTdh.trigger_orbit
                                  \/ last_word.trigger_type # PreviousTdh.trigger_type
        /\ ~HasPreviousTdh => ~HasCode("E44")
        /\ \A k \in 1..Len(word_errors) : word_errors[k].code \in {"E40", "E41", "E44"}

\* C17 happens: the TDH is the first word of a payload, the previous TDH came in
\* the payload before, and only their trigger types differ.
C17_Witness ==
    /\ JustCheckedTraced("TDH_continuation")
    /\ trace.fed[Len(trace.fed) - 1].kind = "rdh"
    /\ HasPreviousTdh
    /\ last_word.trigger_bc = PreviousTdh.trigger_bc
    /\ last_word.trigger_orbit = PreviousTdh.trigger_orbit
    /\ last_word.trigger_type # PreviousTdh.trigger_type
    /\ CountCode("E44") = 1

\* C18: with running checks, a word classified TDH_after_packet_done gets E43
\* exactly when its internal_trigger is not 1, and E44 exactly when a previous
\* TDH exists and its trigger_bc is above this word's; an equal or larger
\* trigger_bc is accepted.
C18_TdhAfterPacketDone ==
    JustCheckedTraced("TDH_after_packet_done") =>
        /\ HasCode("E43") <=> last_word.internal_trigger # 1
        /\ HasCode("E44")
                <=> (HasPreviousTdh /\ last_word.trigger_bc < PreviousTdh.trigger_bc)
        /\ CountCode("E44") <= 1
        /\ \A k \in 1..Len(word_errors) : word_errors[k].code \in {"E40", "E43", "E44"}

\* C18 happens: after a TDT with packet_done 1 a TDH repeats the trigger_bc of
\* the previous TDH, has no internal trigger, and gets E43 but no E44.
C18_Witness ==
    /\ JustCheckedTraced("TDH_after_packet_done")
    /\ HasPreviousTdh
    /\ last_word.trigger_bc = PreviousTdh.trigger_bc
    /\ last_word.trigger_bc > 0
    /\ HasCode("E43") /\ ~HasCode("E44")

(***************************************************************************)
(* Traced runs with running checks over whole frames (IHW, TDH, TDT, DDW0) *)
(* under RDHs with every combination of stop bit and pages counter.        *)
(***************************************************************************)
FrameWords ==
    { [ZeroWord EXCEPT !.id = 224, !.active_lanes = 1],
      TdhOf(0, 1, 0, 0, 16),
      [ZeroWord EXCEPT !.id = 240, !.packet_done = 1],
      [ZeroWord EXCEPT !.id = 228] }

FramePayloads ==
    {[rdh |-> RdhOf(s, p, 2, 16), rdh_mem_pos |-> 0] : s \in {0, 1}, p \in {0, 1}}

NextFrame ==
    \/ Len(trace.fed) < MaxTdhTrace /\ \E p \in FramePayloads : SetCurrentRdh(p.rdh, p.rdh_mem_pos)
    \/ Len(trace.fed) < MaxTdhTrace /\ \E w \in FrameWords : Check(w)
    \/ Len(trace.fed) < MaxTdhTrace /\ ResetFsm

SpecFrame == InitTraced /\ [][NextFrame]_vars

CdwOf(index, user) ==
    [ZeroWord EXCEPT !.id = 248, !.calibration_word_index = index,
                     !.calibration_user_fields = user]

CdwWords ==
    { [ZeroWord EXCEPT !.id = 224, !.active_lanes = 1],
      TdhOf(0, 1, 0, 0, 16),
      [ZeroWord EXCEPT !.id = 32],
      CdwOf(1, 1), CdwOf(1, 2), CdwOf(0, 2) }

NextCdw ==
    \/ Len(trace.fed) < MaxTdhTrace /\ \E p \in Payloads : SetCurrentRdh(p.rdh, p.rdh_mem_pos)
    \/ Len(trace.fed) < MaxTdhTrace /\ \E w \in CdwWords : Check(w)
    \/ Len(trace.fed) < MaxTdhTrace /\ ResetFsm

SpecCdw == InitTraced /\ [][NextCdw]_vars

\* A step in which check() ran to its end.
CheckStep == ~panicked' /\ words_processed' = words_processed + 1

\* A step in which check() handed its word to process_cdw, with running checks.
CdwStep ==
    /\ CheckStep /\ running_checks
    /\ last_label' \in {"CDW", "DataWord"}
    /\ is_new_data /\ last_word'.id = 248

\* C20: with running checks a CDW gets E81 exactly when a previous CDW exists,
\* its user fields differ from this CDW's and this CDW's index is not 0; after
\* the CDW the previous-CDW slot holds it; and no other call changes the slot.
C20_CdwContinuity ==
    [][ /\ CdwStep =>
            /\ (\E k \in 1..Len(word_errors') : word_errors'[k].code = "E81")
                <=> /\ previous_cdw # None
                    /\ Unwrap(previous_cdw).calibration_user_fields
                            # last_word'.calibration_user_fields
                    /\ last_word'.calibration_word_index # 0
            /\ previous_cdw' = Some(CdwLoad(last_word'))
        /\ ~CdwStep => previous_cdw' = previous_cdw
      ]_vars

\* C20 happens: a CDW is the first data word of a second payload, the CDW of the
\* payload before had other user fields, and this one has index 1: E81.
C20_Witness ==
    /\ JustCheckedTraced("CDW")
    /\ rdh_arg.n = 2
    /\ HasCode("E81")
    /\ previous_cdw = Some(CdwLoad(last_word))
    /\ Len(SelectSeq(FedWords, LAMBDA c : c.w.id = 248)) = 2

----------------------------------------------------------------------------
(***************************************************************************)
(* The RDH-CRU on the wire: 64 bytes, packed, little-endian.  A byte is a  *)
(* number in 0..255, a 16-bit field a number, and a 32- or 64-bit field    *)
(* the sequence of its 16-bit limbs, least significant first.              *)
(***************************************************************************)
\* reader.read_u8(): rdh_cru.rs:118. `o` is the offset of the field in b.
ReadU8(b, o) == b[o + 1]

\* A 16-bit read that takes the first byte as the most significant one.
ReadU16BigEndian(b, o) == 256 * b[o + 1] + b[o + 2]

\* reader.read_u16::<LittleEndian>(): rdh_cru.rs:116.
ReadU16(b, o) == b[o + 1] + 256 * b[o + 2]

\* reader.read_u32::<LittleEndian>(), as the sub-header loaders use it.
ReadU32(b, o) == <<ReadU16(b, o), ReadU16(b, o + 2)>>

\* reader.read_u64::<LittleEndian>(): rdh_cru.rs:126.
ReadU64(b, o) ==
    <<ReadU16(b, o), ReadU16(b, o + 2), ReadU16(b, o + 4), ReadU16(b, o + 6)>>

\* The 32-bit and 64-bit fields of value n, for n below 2^31.
U32Of(n) == <<n % 65536, n \div 65536>>

U64Of(n) == <<n % 65536, n \div 65536, 0, 0>>

\* The bytes of a field in memory on the little-endian targets of the program.
U8Bytes(x) == <<x>>

U16Bytes(x) == <<x % 256, x \div 256>>

RECURSIVE WideBytes(_)
WideBytes(w) == IF w = <<>> THEN <<>> ELSE U16Bytes(Head(w)) \o WideBytes(Tail(w))

\* What a load returns: the loaded value, an error value, or a panic.
LoadOk(val) == [kind |-> "Ok", val |-> val]

LoadErr(err) == [kind |-> "Err", err |-> err]

LoadPanic == [kind |-> "Panic"]

\* Rdh0::load .. Rdh3::load on the bytes of b from offset o on.  A loader
\* that meets the end of the input returns an error: EndOfInput when no byte
\* of the RDH was read, Truncated otherwise.
Rdh0Load(b) ==
    IF Len(b) = 0 THEN LoadErr("EndOfInput")
    ELSE IF Len(b) < 8 THEN LoadErr("Truncated")
    ELSE LoadOk([header_id |-> ReadU8(b, 0), header_size |-> ReadU8(b, 1),
                 fee_id |-> ReadU16(b, 2), priority_bit |-> ReadU8(b, 4),
                 system_id |-> ReadU8(b, 5), reserved0 |-> ReadU16(b, 6)])

Rdh1Load(b, o) ==
    IF Len(b) < o + 8 THEN LoadErr("Truncated")
    ELSE LoadOk([bc_reserved0 |-> ReadU32(b, o), orbit |-> ReadU32(b, o + 4)])

Rdh2Load(b, o) ==
    IF Len(b) < o + 8 THEN LoadErr("Truncated")
    ELSE LoadOk([trigger_type |-> ReadU32(b, o), pages_counter |-> ReadU16(b, o + 4),
                 stop_bit |-> ReadU8(b, o + 6), reserved0 |-> ReadU8(b, o + 7)])

Rdh3Load(b, o) ==
    IF Len(b) < o + 8 THEN LoadErr("Truncated")
    ELSE LoadOk([detector_field |-> ReadU32(b, o), par_bit |-> ReadU16(b, o + 4),
                 reserved0 |-> ReadU16(b, o + 6)])

\* load_from_rdh0 unwraps every read: the first read that the bytes of b do
\* not cover panics (unwrap() at rdh_cru.rs:116-121, 126, 128, 130, expect()
\* at 122, 127, 129).
LoadFromRdh0Panics(b) ==
    \/ Len(b) < 16
    \/ Rdh1Load(b, 16).kind # "Ok"
    \/ Len(b) < 32
    \/ Rdh2Load(b, 32).kind # "Ok"
    \/ Len(b) < 48
    \/ Rdh3Load(b, 48).kind # "Ok"
    \/ Len(b) < 64

\* load_from_rdh0 reading memory_size before offset_new_packet.
RdhCruLoadFromRdh0SizeFirst(b, rdh0, v) ==
    IF LoadFromRdh0Panics(b) THEN LoadPanic
    ELSE LoadOk([rdh0 |-> rdh0,
                 offset_new_packet |-> ReadU16(b, 10),
                 memory_size |-> ReadU16(b, 8),
                 link_id |-> ReadU8(b, 12),
                 packet_counter |-> ReadU8(b, 13),
                 cruid_dw |-> ReadU16(b, 14),
                 rdh1 |-> Rdh1Load(b, 16).val,
                 dataformat_reserved0 |-> ReadU64(b, 24),
                 rdh2 |-> Rdh2Load(b, 32).val,
                 reserved1 |-> ReadU64(b, 40),
                 rdh3 |-> Rdh3Load(b, 48).val,
                 reserved2 |-> ReadU64(b, 56),
                 version |-> v])

\* RdhCRU::load_from_rdh0: rdh_cru.rs:112-147.  b holds the bytes of the
\* reader from the start of the RDH, rdh0 is the loaded Rdh0.
RdhCruLoadFromRdh0(b, rdh0, v) ==
    IF LoadFromRdh0Panics(b) THEN LoadPanic
    ELSE LoadOk([rdh0 |-> rdh0,
                 offset_new_packet |-> ReadU16(b, 8),
                 memory_size |-> ReadU16(b, 10),
                 link_id |-> ReadU8(b, 12),
                 packet_counter |-> ReadU8(b, 13),
                 cruid_dw |-> ReadU16(b, 14),
                 rdh1 |-> Rdh1Load(b, 16).val,
                 dataformat_reserved0 |-> ReadU64(b, 24),
                 rdh2 |-> Rdh2Load(b, 32).val,
                 reserved1 |-> ReadU64(b, 40),
                 rdh3 |-> Rdh3Load(b, 48).val,
                 reserved2 |-> ReadU64(b, 56),
                 version |-> v])

\* RdhCRU::load: rdh_cru.rs:101-110.
RdhCruLoad(b, v) ==
    LET rdh0 == Rdh0Load(b)
    IN  IF rdh0.kind # "Ok" THEN rdh0 ELSE RdhCruLoadFromRdh0(b, rdh0.val, v)

\* to_byte_slice(): the 64 bytes of the packed struct, its fields in the
\* order of their declaration (rdh_cru.rs:9-24).
ToByteSlice(rdh) ==
    U8Bytes(rdh.rdh0.header_id) \o U8Bytes(rdh.rdh0.header_size)
        \o U16Bytes(rdh.rdh0.fee_id) \o U8Bytes(rdh.rdh0.priority_bit)
        \o U8Bytes(rdh.rdh0.system_id) \o U16Bytes(rdh.rdh0.reserved0)
        \o U16Bytes(rdh.offset_new_packet) \o U16Bytes(rdh.memory_size)
        \o U8Bytes(rdh.link_id) \o U8Bytes(rdh.packet_counter)
        \o U16Bytes(rdh.cruid_dw)
        \o WideBytes(rdh.rdh1.bc_reserved0) \o WideBytes(rdh.rdh1.orbit)
        \o WideBytes(rdh.dataformat_reserved0)
        \o WideBytes(rdh.rdh2.trigger_type) \o U16Bytes(rdh.rdh2.pages_counter)
        \o U8Bytes(rdh.rdh2.stop_bit) \o U8Bytes(rdh.rdh2.reserved0)
        \o WideBytes(rdh.reserved1)
        \o WideBytes(rdh.rdh3.detector_field) \o U16Bytes(rdh.rdh3.par_bit)
        \o U16Bytes(rdh.rdh3.reserved0)
        \o WideBytes(rdh.reserved2)

\* PartialEq for RdhCRU: rdh_cru.rs:77-82.
RdhEq(a, b) == ToByteSlice(a) = ToByteSlice(b)

\* The accessors of the packed fields: rdh_cru.rs:56-74.
cru_id(rdh) == rdh.cruid_dw % 4096

dw(rdh) == rdh.cruid_dw \div 4096

data_format(rdh) == rdh.dataformat_reserved0[1] % 256

DataformatReserved0(rdh) ==
    <<rdh.dataformat_reserved0[1] \div 256, rdh.dataformat_reserved0[2],
      rdh.dataformat_reserved0[3], rdh.dataformat_reserved0[4]>>

\* The bytes of test_load_rdhcruv7_from_byte_slice (rdh_cru.rs:413-419),
\* "taken from a valid rdh from real data".
TestBytes ==
    <<7, 64, 42, 80, 0, 32, 0, 0, 224, 19, 224, 19, 0, 0, 24, 0,
      0, 0, 0, 0, 117, 213, 125, 11, 2, 0, 0, 0, 0, 0, 0, 0,
      0, 106, 0, 0, 0, 0, 0, 0, 0, 0, 0, 0, 0, 0, 0, 0,
      0, 0, 0, 0, 0, 0, 0, 0, 0, 0, 0, 0, 0, 0, 0, 0>>

\* Bytes of the test RDH that the inputs of the model replace, and the
\* values they put there.
MaxPatchedBytes == 1

ByteSamples == {1, 128, 255}

RECURSIVE PatchedBytes(_)
PatchedBytes(k) ==
    IF k = 0 THEN {TestBytes}
    ELSE LET S == PatchedBytes(k - 1)
         IN  S \cup {[s EXCEPT ![p] = v] : s \in S, p \in 1..64, v \in ByteSamples}

\* The sources of the model: complete RDHs, an RDH with bytes of a payload
\* after it, and every source that ends inside the RDH.
LoadSources ==
    PatchedBytes(MaxPatchedBytes)
        \cup {TestBytes \o <<1, 2>>}
        \cup {SubSeq(TestBytes, 1, n) : n \in 0..63}

\* RdhCRU::<Version>::load(&mut source): rdh_cru.rs:101-147.
Load ==
    /\ load_ret = None
    /\ ~load_panicked
    /\ LET r == RdhCruLoad(source, version)
       IN  IF r.kind = "Panic"
           THEN load_panicked' = TRUE /\ UNCHANGED load_ret
           ELSE load_ret' = Some(r) /\ UNCHANGED load_panicked
    /\ UNCHANGED <<version, source, byte_slice, rdh_copy>>
    /\ UNCHANGED <<reader_vars, val_vars, sanity_vars, writer_vars, tool_vars>>

Loaded == load_ret # None /\ Unwrap(load_ret).kind = "Ok"

LoadedRdh == Unwrap(load_ret).val

\* rdh.to_byte_slice() on the loaded RDH.
TakeByteSlice ==
    /\ Loaded
    /\ byte_slice = None
    /\ byte_slice' = Some(ToByteSlice(LoadedRdh))
    /\ UNCHANGED <<version, source, load_ret, load_panicked, rdh_copy>>
    /\ UNCHANGED <<reader_vars, val_vars, sanity_vars, writer_vars, tool_vars>>

\* The copy set_current_rdh stores: RdhCRU::load(&mut rdh.to_byte_slice())
\* .unwrap(), cdp_running.rs:151-153.
CopyRdh ==
    /\ Loaded
    /\ rdh_copy = None
    /\ ~load_panicked
    /\ LET r == RdhCruLoad(ToByteSlice(LoadedRdh), version)
       IN  IF r.kind = "Ok"
           THEN rdh_copy' = Some(r.val) /\ UNCHANGED load_panicked
           ELSE load_panicked' = TRUE /\ UNCHANGED rdh_copy
    /\ UNCHANGED <<version, source, load_ret, byte_slice>>
    /\ UNCHANGED <<reader_vars, val_vars, sanity_vars, writer_vars, tool_vars>>

InitRdhLoad ==
    /\ version \in {"V6", "V7"}
    /\ source \in LoadSources
    /\ load_ret = None
    /\ load_panicked = FALSE
    /\ byte_slice = None
    /\ rdh_copy = None
    /\ InitSanityIdle
    /\ InitWriterWith(1)
    /\ InitValidatorWith(FALSE, TRUE)
    /\ trace = NoTrace
    /\ InitReaderWith([good |-> 0, err |-> "UnexpectedEof", more |-> 0])
    /\ InitToolIdle
    /\ InitToolIdle

NextRdhLoad ==
    \/ Load
    \/ TakeByteSlice
    \/ CopyRdh

SpecRdhLoad == InitRdhLoad /\ [][NextRdhLoad]_vars

----------------------------------------------------------------------------
\* C21: for the V6 and the V7 variant and every 64-byte input, the byte-slice
\* view of the loaded RDH is the 64 bytes it was loaded from, and loading that
\* view again succeeds and yields an RDH equal to the first, so the copy made
\* by set_current_rdh equals the RDH it was given.
C21_RoundTrip ==
    /\ byte_slice # None => Unwrap(byte_slice) = SubSeq(source, 1, 64)
    /\ rdh_copy # None =>
        /\ Unwrap(rdh_copy) = LoadedRdh
        /\ RdhEq(Unwrap(rdh_copy), LoadedRdh)
    /\ Loaded => ~load_panicked

C21_Witness ==
    /\ version = "V6"
    /\ Len(source) = 64
    /\ source[24] = 255
    /\ byte_slice # None
    /\ rdh_copy # None

----------------------------------------------------------------------------
\* The test bytes loaded as an RDH-CRU V7.
DecodedTestBytes == source = TestBytes /\ version = "V7" /\ load_ret # None

\* The fields the bytes decode to, with `t` the trigger type.
DecodesTo(t) ==
    /\ Loaded
    /\ LoadedRdh.rdh0.header_id = 7
    /\ LoadedRdh.rdh0.header_size = 64
    /\ LoadedRdh.rdh0.fee_id = 20522                \* 0x502A
    /\ LoadedRdh.rdh0.system_id = 32                \* 0x20
    /\ LoadedRdh.offset_new_packet = 5088           \* 0x13E0
    /\ LoadedRdh.memory_size = 5088                 \* 0x13E0
    /\ LoadedRdh.link_id = 0
    /\ LoadedRdh.cruid_dw = 24                      \* 0x0018
    /\ LoadedRdh.rdh1.orbit = U32Of(192796021)      \* 0x0B7DD575
    /\ data_format(LoadedRdh) = 2
    /\ LoadedRdh.rdh2.trigger_type = U32Of(t)

\* C22 as stated: the 64 test bytes decode to header_id 7, header_size 0x40,
\* fee_id 0x502A, system_id 0x20, offset_new_packet and memory_size 0x13E0,
\* link_id 0, cruid_dw 0x0018, orbit 0x0B7DD575, data_format 2 and
\* trigger_type 0x00006A03.
C22_DecodedAsListed == DecodedTestBytes => DecodesTo(27139)

\* C22: the 64 test bytes decode to the listed fields with trigger_type
\* 0x00006A00: bytes 32..35 of the input are 00 6A 00 00.
C22_DecodedFields == DecodedTestBytes => DecodesTo(27136)

C22_Witness == DecodedTestBytes /\ Loaded /\ LoadedRdh.rdh2.trigger_type[1] = 27136

----------------------------------------------------------------------------
\* C23: loading an RDH from a source that ends early never panics and returns
\* an error value: EndOfInput when the source has no byte, Truncated when it
\* has 1 to 63 bytes.
C23_ShortSourceYieldsError ==
    Len(source) < 64 =>
        /\ ~load_panicked
        /\ load_ret # None =>
            /\ Unwrap(load_ret).kind = "Err"
            /\ Unwrap(load_ret).err = IF Len(source) = 0 THEN "EndOfInput" ELSE "Truncated"

----------------------------------------------------------------------------
(***************************************************************************)
(* The RDH sanity validator (src/src/validators/rdh.rs).  A sanity check   *)
(* returns the set of the names its error message holds: Ok(()) when the   *)
(* set is empty, Err(message) otherwise.                                   *)
(***************************************************************************)
ITS_SYSTEM_ID == 32

\* Bits lo .. lo + n - 1 of x.
Bits(x, lo, n) == (x \div (2 ^ lo)) % (2 ^ n)

NameIf(cond, name) == IF cond THEN {name} ELSE {}

\* stave_number_from_feeid and layer_from_feeid: bits 5:0 and 14:12.
stave_number_from_feeid(fee_id) == Bits(fee_id, 0, 6)

layer_from_feeid(fee_id) == Bits(fee_id, 12, 3)

\* fee_id.0 & 0b1000_1100_1100_0000: rdh.rs:169-170.
FeeIdReservedBits(fee_id) ==
    32768 * Bits(fee_id, 15, 1) + 1024 * Bits(fee_id, 10, 2) + 64 * Bits(fee_id, 6, 2)

\* Rdh1::bc() and Rdh1::reserved0(): bits 11:0 and 31:12 of bc_reserved0.
Rdh1Bc(rdh1) == Bits(rdh1.bc_reserved0[1], 0, 12)

Rdh1Reserved0(rdh1) == <<Bits(rdh1.bc_reserved0[1], 12, 4), rdh1.bc_reserved0[2]>>

\* FeeIdSanityValidator::sanity_check accepting stave number 48.
FeeIdSanityCheckStave48(fee_id) ==
    NameIf(FeeIdReservedBits(fee_id) # 0, "reserved_bits")
        \cup NameIf(stave_number_from_feeid(fee_id) < 0
                    \/ stave_number_from_feeid(fee_id) > 48, "stave_number")
        \cup NameIf(layer_from_feeid(fee_id) < 0 \/ layer_from_feeid(fee_id) > 6, "layer")

\* FeeIdSanityValidator::sanity_check with FEE_ID_SANITY_VALIDATOR =
\* new((0, 6), (0, 47)): rdh.rs:156-202 and rdh.rs:37.
FeeIdSanityCheck(fee_id) ==
    NameIf(FeeIdReservedBits(fee_id) # 0, "reserved_bits")
        \cup NameIf(stave_number_from_feeid(fee_id) < 0
                    \/ stave_number_from_feeid(fee_id) > 47, "stave_number")
        \cup NameIf(layer_from_feeid(fee_id) < 0 \/ layer_from_feeid(fee_id) > 6, "layer")

\* The names of Rdh0Validator::sanity_check apart from system_id, for the
\* validator `v` whose header_id is set: rdh.rs:240-278, 286-290.
Rdh0Names(v, rdh0) ==
    NameIf(rdh0.header_id # Unwrap(v.header_id), "header_id")
        \cup NameIf(rdh0.header_size # v.header_size, "header_size")
        \cup (IF FeeIdSanityCheck(rdh0.fee_id) # {}
              THEN {"fee_id"} \cup FeeIdSanityCheck(rdh0.fee_id) ELSE {})
        \cup NameIf(rdh0.priority_bit # v.priority_bit, "priority_bit")
        \cup NameIf(rdh0.reserved0 # v.reserved0, "rdh0.reserved0")

\* Rdh0Validator::sanity_check that sets the expected header_id at every call.
Rdh0ValidatorSanityCheckLatchAlways(v0, rdh0) ==
    LET v == [v0 EXCEPT !.header_id = Some(rdh0.header_id)]
    IN  [validator |-> v,
         names |-> Rdh0Names(v, rdh0)
                    \cup NameIf(v.system_id # None /\ rdh0.system_id # Unwrap(v.system_id),
                                "system_id")]

\* Rdh0Validator::sanity_check: rdh.rs:236-295.  The first Rdh0 checked sets
\* the expected header_id (rdh.rs:237-239).
Rdh0ValidatorSanityCheck(v0, rdh0) ==
    LET v == IF v0.header_id = None THEN [v0 EXCEPT !.header_id = Some(rdh0.header_id)]
             ELSE v0
    IN  [validator |-> v,
         names |-> Rdh0Names(v, rdh0)
                    \cup NameIf(v.system_id # None /\ rdh0.system_id # Unwrap(v.system_id),
                                "system_id")]

\* Rdh1Validator::sanity_check with valid_rdh1 = Rdh1::test_new(0, 0, 0):
\* rdh.rs:303-326 and rdh.rs:32-34.
Rdh1ValidatorSanityCheck(rdh1) ==
    NameIf(Rdh1Reserved0(rdh1) # <<0, 0>>, "rdh1.reserved0")
        \cup NameIf(Rdh1Bc(rdh1) > 3563, "bc")

\* Rdh2Validator::sanity_check: rdh.rs:331-360.  The spare bits 26:15 of
\* trigger_type are bit 15 of its low half and bits 10:0 of its high half.
Rdh2ValidatorSanityCheck(rdh2) ==
    NameIf(rdh2.reserved0 # 0, "rdh2.reserved0")
        \cup NameIf(rdh2.stop_bit > 1, "stop_bit")
        \cup NameIf(\/ rdh2.trigger_type = <<0, 0>>
                    \/ Bits(rdh2.trigger_type[1], 15, 1) # 0
                    \/ Bits(rdh2.trigger_type[2], 0, 11) # 0, "trigger_type")

\* Rdh3Validator::sanity_check: rdh.rs:365-386.  Bits 23:4 of detector_field
\* are bits 15:4 of its low half and bits 7:0 of its high half.
Rdh3ValidatorSanityCheck(rdh3) ==
    NameIf(rdh3.reserved0 # 0, "rdh3.reserved0")
        \cup NameIf(\/ Bits(rdh3.detector_field[1], 4, 12) # 0
                    \/ Bits(rdh3.detector_field[2], 0, 8) # 0, "detector_field")

\* What sanity_check returns: the validator after the call and the message.
SanityRet(v, names) == [validator |-> v, ok |-> names = {}, names |-> names]

\* sanity_check that fails every data_format other than 0 and 2.
RdhCruSanityCheckFormat0Or2(v0, rdh) ==
    LET r0 == Rdh0ValidatorSanityCheck(v0, rdh.rdh0)
    IN  SanityRet(r0.validator,
                  r0.names \cup Rdh1ValidatorSanityCheck(rdh.rdh1)
                      \cup Rdh2ValidatorSanityCheck(rdh.rdh2)
                      \cup Rdh3ValidatorSanityCheck(rdh.rdh3)
                      \cup NameIf(dw(rdh) > 1, "dw")
                      \cup NameIf(data_format(rdh) \notin {0, 2}, "data_format"))

\* sanity_check that returns the error of the first sub-header that fails.
RdhCruSanityCheckEarlyReturn(v0, rdh) ==
    LET r0 == Rdh0ValidatorSanityCheck(v0, rdh.rdh0)
        r1 == Rdh1ValidatorSanityCheck(rdh.rdh1)
        r2 == Rdh2ValidatorSanityCheck(rdh.rdh2)
        r3 == Rdh3ValidatorSanityCheck(rdh.rdh3)
    IN  SanityRet(r0.validator,
                  IF r0.names # {} THEN r0.names
                  ELSE IF r1 # {} THEN r1
                  ELSE IF r2 # {} THEN r2
                  ELSE IF r3 # {} THEN r3
                  ELSE NameIf(dw(rdh) > 1, "dw")
                           \cup NameIf(data_format(rdh) > 2, "data_format"))

\* RdhCruSanityValidator::sanity_check: rdh.rs:83-136.  Every sub-validator
\* runs, then dw and data_format are tested, and the messages are joined.
RdhCruSanityCheck(v0, rdh) ==
    LET r0 == Rdh0ValidatorSanityCheck(v0, rdh.rdh0)
    IN  SanityRet(r0.validator,
                  r0.names \cup Rdh1ValidatorSanityCheck(rdh.rdh1)
                      \cup Rdh2ValidatorSanityCheck(rdh.rdh2)
                      \cup Rdh3ValidatorSanityCheck(rdh.rdh3)
                      \cup NameIf(dw(rdh) > 1, "dw")
                      \cup NameIf(data_format(rdh) > 2, "data_format"))

\* rdh_cru.rs:217-251.
CORRECT_RDH_CRU_V7 ==
    [rdh0 |-> [header_id |-> 7, header_size |-> 64, fee_id |-> 20522,
               priority_bit |-> 0, system_id |-> 32, reserved0 |-> 0],
     offset_new_packet |-> 5088,
     memory_size |-> 5088,
     link_id |-> 0,
     packet_counter |-> 0,
     cruid_dw |-> 24,
     rdh1 |-> [bc_reserved0 |-> U32Of(0), orbit |-> U32Of(192796021)],
     dataformat_reserved0 |-> U64Of(2),
     rdh2 |-> [trigger_type |-> U32Of(27139), pages_counter |-> 0,
               stop_bit |-> 0, reserved0 |-> 0],
     reserved1 |-> U64Of(0),
     rdh3 |-> [detector_field |-> U32Of(0), par_bit |-> 0, reserved0 |-> 0],
     reserved2 |-> U64Of(0),
     version |-> "V7"]

\* The RDH r with one field changed: values at and next to the limits of the
\* data model, for every field the data model constrains.
FieldPatches(r) ==
    {[r EXCEPT !.rdh0.header_id = x] : x \in {6, 8}}
        \cup {[r EXCEPT !.rdh0.header_size = x] : x \in {0, 65}}
        \cup {[r EXCEPT !.rdh0.fee_id = x] :
                x \in {28672, 48, 32768, 1024, 64, 24623}}  \* 0x7000, 0x30, bits 15, 10, 6; 0x602F
        \cup {[r EXCEPT !.rdh0.priority_bit = 1]}
        \cup {[r EXCEPT !.rdh0.system_id = x] : x \in {0, 153}}          \* 0x99
        \cup {[r EXCEPT !.rdh0.reserved0 = 3]}
        \cup {[r EXCEPT !.link_id = x] : x \in {11, 12, 15, 16}}
        \cup {[r EXCEPT !.cruid_dw = x] : x \in {4120, 8216}}            \* dw 1, dw 2
        \cup {[r EXCEPT !.rdh1.bc_reserved0 = x] :
                x \in {<<3563, 0>>, <<3564, 0>>, <<4096, 0>>, <<0, 1>>}} \* bc 0xDEB, 0xDEC; bits 12, 16
        \cup {[r EXCEPT !.dataformat_reserved0 = x] :
                x \in {U64Of(0), U64Of(1), U64Of(3), U64Of(255), U64Of(258), <<2, 0, 0, 1>>}}
        \cup {[r EXCEPT !.rdh2.trigger_type = x] :
                x \in {<<0, 0>>, <<32768, 0>>, <<1, 1024>>, <<1, 2048>>}} \* 0; bits 15, 26, 27
        \cup {[r EXCEPT !.rdh2.stop_bit = x] : x \in {1, 2}}
        \cup {[r EXCEPT !.rdh2.reserved0 = 1]}
        \cup {[r EXCEPT !.reserved1 = U64Of(1)]}
        \cup {[r EXCEPT !.rdh3.detector_field = x] :
                x \in {<<5, 0>>, <<128, 0>>, <<0, 128>>, <<0, 256>>}}     \* bits 0 and 2; 7; 23; 24
        \cup {[r EXCEPT !.rdh3.reserved0 = 1]}
        \cup {[r EXCEPT !.rdh3.par_bit = 1]}
        \cup {[r EXCEPT !.reserved2 = <<0, 0, 0, 1>>]}

\* The RDH r with one more constraint violated, one violation per part of
\* the record.
ViolatingPatches(r) ==
    {[r EXCEPT !.rdh0.header_id = 8],
     [r EXCEPT !.rdh0.header_size = 0],
     [r EXCEPT !.rdh0.fee_id = 61488],                   \* 0xF030: bit 15, layer 7, stave 48
     [r EXCEPT !.rdh0.system_id = 153],
     [r EXCEPT !.rdh1.bc_reserved0 = <<3564, 1>>],
     [r EXCEPT !.rdh2.stop_bit = 2],
     [r EXCEPT !.rdh2.trigger_type = <<0, 0>>],
     [r EXCEPT !.rdh3.detector_field = <<128, 0>>],
     [r EXCEPT !.cruid_dw = 8216],
     [r EXCEPT !.dataformat_reserved0 = U64Of(3)]}

\* Constraints one RDH of the model violates together.
MaxPatches == 2

RECURSIVE MultiPatched(_)
MultiPatched(k) ==
    IF k = 0 THEN {CORRECT_RDH_CRU_V7}
    ELSE LET S == MultiPatched(k - 1)
         IN  S \cup UNION {ViolatingPatches(s) : s \in S}

SanityRdhs == FieldPatches(CORRECT_RDH_CRU_V7) \cup MultiPatched(MaxPatches)

\* Bound of the validator runs: sanity_check calls on one validator.
MaxSanityCalls == 3

\* validator.sanity_check(&rdh): rdh.rs:83-136.
SanityCheck(rdh) ==
    /\ sanity_calls < MaxSanityCalls
    /\ LET r == RdhCruSanityCheck(rdh0_validator, rdh)
       IN  /\ rdh0_validator' = r.validator
           /\ sanity_last' = [op |-> "sanity_check", rdh |-> rdh, ok |-> r.ok,
                              names |-> r.names]
    /\ sanity_calls' = sanity_calls + 1
    /\ first_header_id' = IF first_header_id = None THEN Some(rdh.rdh0.header_id)
                          ELSE first_header_id
    /\ UNCHANGED specialization
    /\ UNCHANGED <<reader_vars, val_vars, load_vars, writer_vars, tool_vars>>

\* specialize(ITS) that builds the Rdh0Validator anew.
SpecializeAnew ==
    /\ rdh0_validator' = Rdh0ValidatorNew(Some(ITS_SYSTEM_ID))
    /\ sanity_last' = [op |-> "specialize"]
    /\ specialization' = "ITS"
    /\ UNCHANGED <<sanity_calls, first_header_id>>
    /\ UNCHANGED <<reader_vars, val_vars, load_vars, writer_vars, tool_vars>>

\* validator.specialize(SpecializeChecks::ITS): rdh.rs:72-78.
Specialize ==
    /\ rdh0_validator' = [rdh0_validator EXCEPT !.system_id = Some(ITS_SYSTEM_ID)]
    /\ sanity_last' = [op |-> "specialize"]
    /\ specialization' = "ITS"
    /\ UNCHANGED <<sanity_calls, first_header_id>>
    /\ UNCHANGED <<reader_vars, val_vars, load_vars, writer_vars, tool_vars>>

\* RdhCruSanityValidator::new() (rdh.rs:43-51) or
\* RdhCruSanityValidator::with_specialization(ITS) (rdh.rs:54-69).
InitSanity ==
    /\ \/ rdh0_validator = Rdh0ValidatorNew(None) /\ specialization = "none"
       \/ rdh0_validator = Rdh0ValidatorNew(Some(ITS_SYSTEM_ID)) /\ specialization = "ITS"
    /\ sanity_last = [op |-> "new"]
    /\ sanity_calls = 0
    /\ first_header_id = None
    /\ InitLoadIdle
    /\ InitWriterWith(1)
    /\ InitValidatorWith(FALSE, TRUE)
    /\ trace = NoTrace
    /\ InitReaderWith([good |-> 0, err |-> "UnexpectedEof", more |-> 0])
    /\ InitToolIdle
    /\ InitToolIdle

NextSanity ==
    \/ \E rdh \in SanityRdhs : SanityCheck(rdh)
    \/ Specialize

SpecSanity == InitSanity /\ [][NextSanity]_vars

\* The last call was a sanity_check.
Checked == sanity_last.op = "sanity_check"

\* The constraints of the data model on the bytes b of an RDH that the
\* sub-header checks and the dw check are about, each under the name the
\* error message uses: b[1] is byte 0 of the RDH.
SubHeaderViolations(b) ==
    NameIf(b[2] # 64, "header_size")
        \cup NameIf(b[5] # 0, "priority_bit")
        \cup NameIf(b[7] # 0 \/ b[8] # 0, "rdh0.reserved0")
        \cup NameIf((b[4] \div 16) % 8 > 6, "layer")
        \cup NameIf(b[3] % 64 > 47, "stave_number")
        \cup NameIf(b[4] \div 128 # 0 \/ (b[4] \div 4) % 4 # 0 \/ b[3] \div 64 # 0,
                    "reserved_bits")
        \cup NameIf(b[17] + 256 * (b[18] % 16) > 3563, "bc")
        \cup NameIf(b[18] \div 16 # 0 \/ b[19] # 0 \/ b[20] # 0, "rdh1.reserved0")
        \cup NameIf(\/ b[33] = 0 /\ b[34] = 0 /\ b[35] = 0 /\ b[36] = 0
                    \/ b[34] \div 128 # 0 \/ b[35] # 0 \/ b[36] % 8 # 0, "trigger_type")
        \cup NameIf(b[39] > 1, "stop_bit")
        \cup NameIf(b[40] # 0, "rdh2.reserved0")
        \cup NameIf(b[49] \div 16 # 0 \/ b[50] # 0 \/ b[51] # 0, "detector_field")
        \cup NameIf(b[55] # 0 \/ b[56] # 0, "rdh3.reserved0")
        \cup NameIf(b[16] \div 16 > 1, "dw")

LastBytes == ToByteSlice(sanity_last.rdh)

----------------------------------------------------------------------------
\* C24: the first RDH a validator checks sets the expected header_id, so it is
\* never reported for its header_id; after it the expected header_id stays the
\* header_id of that first RDH, and every RDH checked with another header_id
\* is rejected with header_id named, and no other RDH is.
C24_HeaderIdLatched ==
    /\ sanity_calls = 0 => rdh0_validator.header_id = None
    /\ sanity_calls > 0 => rdh0_validator.header_id = first_header_id
    /\ Checked =>
        /\ ("header_id" \in sanity_last.names)
            <=> (sanity_last.rdh.rdh0.header_id # Unwrap(first_header_id))
        /\ "header_id" \in sanity_last.names => ~sanity_last.ok

C24_Witness ==
    /\ Checked
    /\ sanity_calls >= 2
    /\ first_header_id = Some(8)
    /\ sanity_last.rdh.rdh0.header_id = 7
    /\ "header_id" \in sanity_last.names
    /\ ~sanity_last.ok

----------------------------------------------------------------------------
\* C25 as stated: every RDH whose data_format is neither 0 nor 2 fails the
\* sanity check.
C25_OnlyFormat0And2 ==
    Checked /\ LastBytes[25] \notin {0, 2} => ~sanity_last.ok

\* C25: an RDH fails the sanity check on its data_format exactly when the
\* data_format is above 2; data_format 0, 1 and 2 are not reported, and an
\* RDH with nothing else to report is accepted with any of them.
C25_FormatAbove2 ==
    Checked =>
        /\ ("data_format" \in sanity_last.names) <=> (LastBytes[25] > 2)
        /\ "data_format" \in sanity_last.names => ~sanity_last.ok
        /\ LastBytes[25] <= 2 /\ sanity_last.names \ {"data_format"} = {} => sanity_last.ok

C25_Witness ==
    /\ Checked
    /\ LastBytes[25] = 1
    /\ sanity_last.ok

----------------------------------------------------------------------------
\* The inline-field constraints of the data model on the bytes of an RDH:
\* link_id in 0..=11 or 15, reserved1 = 0, reserved2 = 0, bits 63:8 of
\* dataformat_reserved0 zero.
InlineFieldViolation(b) ==
    \/ b[13] \notin (0..11) \cup {15}
    \/ \E k \in 26..32 : b[k] # 0
    \/ \E k \in 41..48 : b[k] # 0
    \/ \E k \in 57..64 : b[k] # 0

\* C26: the sanity check rejects every RDH that violates an inline-field
\* constraint (link_id, reserved1, reserved2, the reserved bits of
\* dataformat_reserved0), also when every sub-header is valid.
C26_InlineFieldsChecked ==
    Checked /\ InlineFieldViolation(LastBytes) => ~sanity_last.ok

----------------------------------------------------------------------------
\* C27: a sanity check reports system_id exactly when the validator is
\* specialized for ITS (at construction or by specialize) and the RDH's
\* system_id is not 32, and then rejects the RDH; and a specialize(ITS) call
\* changes the expected system_id to 32 and nothing else of the validator.
C27_SystemId ==
    Checked =>
        /\ ("system_id" \in sanity_last.names)
            <=> (specialization = "ITS" /\ LastBytes[6] # 32)
        /\ "system_id" \in sanity_last.names => ~sanity_last.ok
        /\ sanity_last.names \ {"system_id"} = {}
            => (sanity_last.ok <=> (specialization = "none" \/ LastBytes[6] = 32))

C27_SpecializeStep ==
    sanity_last'.op = "specialize" =>
        rdh0_validator' = [rdh0_validator EXCEPT !.system_id = Some(32)]

C27_Specialization == []C27_SystemId /\ [][C27_SpecializeStep]_vars

C27_Witness ==
    /\ Checked
    /\ sanity_calls >= 2
    /\ specialization = "ITS"
    /\ rdh0_validator.header_id = Some(7)
    /\ LastBytes[6] = 153
    /\ sanity_last.names = {"system_id"}

----------------------------------------------------------------------------
\* C28: the names a sanity check reports, apart from header_id, system_id and
\* data_format, are exactly the violated ones of the constraints header_size,
\* priority_bit, rdh0.reserved0, FEE-ID layer, stave number and reserved bits,
\* bc, rdh1 reserved, trigger_type, stop_bit, rdh2.reserved0, detector_field,
\* rdh3.reserved0 and dw; an RDH that violates one of them is rejected; FEE-ID
\* 0x502A is accepted, 0x7000 and stave number 48 are rejected.
C28_SubHeaderChecks ==
    Checked =>
        /\ sanity_last.names \ {"header_id", "system_id", "data_format", "fee_id"}
            = SubHeaderViolations(LastBytes)
        /\ ("fee_id" \in sanity_last.names)
            <=> (SubHeaderViolations(LastBytes)
                    \cap {"layer", "stave_number", "reserved_bits"} # {})
        /\ SubHeaderViolations(LastBytes) # {} => ~sanity_last.ok
        /\ sanity_last.rdh.rdh0.fee_id = 20522 => "fee_id" \notin sanity_last.names
        /\ sanity_last.rdh.rdh0.fee_id \in {28672, 48} => "fee_id" \in sanity_last.names

C28_Witness ==
    /\ Checked
    /\ sanity_last.rdh.rdh0.fee_id = 48
    /\ sanity_last.names = {"fee_id", "stave_number"}

----------------------------------------------------------------------------
\* Every constraint the RDH of the last call violates: those of the
\* sub-headers and dw, the header_id of the first RDH, system_id 32 under the
\* ITS specialization, data_format at most 2.
AllViolations ==
    SubHeaderViolations(LastBytes)
        \cup NameIf(LastBytes[1] # Unwrap(first_header_id), "header_id")
        \cup NameIf(specialization = "ITS" /\ LastBytes[6] # 32, "system_id")
        \cup NameIf(LastBytes[25] > 2, "data_format")

\* C29: a sanity check of an RDH that violates k constraints, in one or in
\* several sub-headers, returns one error that names all k of them; it
\* returns Ok only when no constraint is violated.
C29_AllViolationsNamed ==
    Checked =>
        /\ AllViolations \subseteq sanity_last.names
        /\ sanity_last.ok <=> (AllViolations = {})

C29_Witness ==
    /\ Checked
    /\ ~sanity_last.ok
    /\ {"header_id", "layer", "stave_number", "reserved_bits", "bc", "rdh1.reserved0"}
        \subseteq AllViolations
    /\ AllViolations \subseteq sanity_last.names

----------------------------------------------------------------------------
(***************************************************************************)
(* The buffered writer (src/src/write/writer.rs).  A CDP of a chunk is     *)
(* given by the 64 bytes its RDH was loaded from and by its payload.       *)
(***************************************************************************)
\* Bounds of the writer runs: the largest max_buffer_size, the CDPs of one
\* chunk, the CDPs pushed in one run.
MaxBufferSize == 3

MaxChunkLen == 2

MaxPushed == 4

\* The CDPs the model pushes: two RDHs that differ in link_id, packet_counter
\* and trigger_type, one with a payload of two bytes and one with none.
WriterCdps ==
    {[bytes |-> TestBytes, payload |-> <<1, 2>>],
     [bytes |-> [TestBytes EXCEPT ![13] = 2, ![14] = 1, ![36] = 255], payload |-> <<>>]}

\* The chunks the model pushes, the empty chunk among them.
WriterChunks == UNION {[1..n -> WriterCdps] : n \in 0..MaxChunkLen}

\* The RDH of a CDP as the input scanner loaded it.
CdpRdh(cdp) == RdhCruLoad(cdp.bytes, "V7").val

RECURSIVE FlushData(_, _)
\* The data flush() assembles: writer.rs:106-114.  zip() stops at the end of
\* the shorter buffer.
FlushData(rdhs, payloads) ==
    IF rdhs = <<>> \/ payloads = <<>> THEN <<>>
    ELSE ToByteSlice(Head(rdhs)) \o Head(payloads) \o FlushData(Tail(rdhs), Tail(payloads))

\* flush() that does not clear the buffers after the write.
FlushKeepsBuffers(rdhs, payloads, out, write_ok) ==
    IF write_ok
    THEN [ok |-> TRUE, rdhs |-> rdhs, payloads |-> payloads,
          out |-> out \o FlushData(rdhs, payloads)]
    ELSE [ok |-> FALSE, rdhs |-> rdhs, payloads |-> payloads, out |-> out]

\* flush() that clears the buffers before it writes.
FlushClearsFirst(rdhs, payloads, out, write_ok) ==
    IF write_ok
    THEN [ok |-> TRUE, rdhs |-> <<>>, payloads |-> <<>>,
          out |-> out \o FlushData(rdhs, payloads)]
    ELSE [ok |-> FALSE, rdhs |-> <<>>, payloads |-> <<>>, out |-> out]

\* flush(): writer.rs:100-120.  `out` is what the sink holds, `write_ok`
\* whether write_all succeeds; when it fails, flush returns the error before
\* it clears the buffers (what a failed write left in the sink is not
\* modelled).
Flush(rdhs, payloads, out, write_ok) ==
    IF write_ok
    THEN [ok |-> TRUE, rdhs |-> <<>>, payloads |-> <<>>,
          out |-> out \o FlushData(rdhs, payloads)]
    ELSE [ok |-> FALSE, rdhs |-> rdhs, payloads |-> payloads, out |-> out]

\* The buffers are at their threshold for n more CDPs: writer.rs:88-89.
BufferFull(n) ==
    \/ Len(filtered_rdhs_buffer) + n >= max_buffer_size
    \/ Len(filtered_payload_buffers) + n >= max_buffer_size

\* flush() stops at its debug assertion: writer.rs:101-104.  The assertion
\* exists only in builds with debug assertions.
FlushAsserts(rdhs, payloads) == debug_assertions /\ Len(rdhs) # Len(payloads)

\* push_cdp_chunk(cdp_chunk): writer.rs:87-97.  A flush that fails panics
\* (expect, writer.rs:91).
PushCdpChunk(cdp_chunk, write_ok) ==
    /\ writer_pc = "open"
    /\ Len(pushed) + Len(cdp_chunk) <= MaxPushed
    /\ LET flushing == BufferFull(Len(cdp_chunk))
           unequal == Len(filtered_rdhs_buffer) # Len(filtered_payload_buffers)
           f == IF flushing
                THEN Flush(filtered_rdhs_buffer, filtered_payload_buffers, written, write_ok)
                ELSE [ok |-> TRUE, rdhs |-> filtered_rdhs_buffer,
                      payloads |-> filtered_payload_buffers, out |-> written]
       IN  /\ flush_mismatch' = IF flushing /\ unequal THEN "push" ELSE flush_mismatch
           /\ IF f.ok /\ ~(flushing /\ FlushAsserts(filtered_rdhs_buffer,
                                                     filtered_payload_buffers))
              THEN /\ filtered_rdhs_buffer' =
                        f.rdhs \o [k \in 1..Len(cdp_chunk) |-> CdpRdh(cdp_chunk[k])]
                   /\ filtered_payload_buffers' =
                        f.payloads \o [k \in 1..Len(cdp_chunk) |-> cdp_chunk[k].payload]
                   /\ written' = f.out
                   /\ flushes' = flushes + Bit(flushing /\ filtered_rdhs_buffer # <<>>)
                   /\ pushed' = pushed \o cdp_chunk
                   /\ UNCHANGED writer_pc
              ELSE /\ writer_pc' = "panicked"
                   /\ UNCHANGED <<filtered_rdhs_buffer, filtered_payload_buffers, written,
                                  flushes, pushed>>
    /\ UNCHANGED <<max_buffer_size, debug_assertions, owed, flush_ret, flush_returns>>
    /\ UNCHANGED <<reader_vars, val_vars, load_vars, sanity_vars, tool_vars>>

\* push_rdhs(rdhs): writer.rs:71-76.  `rdh_cdps` carries the RDHs (its payloads
\* are the ones the caller pushes afterwards).
PushRdhs(rdh_cdps, write_ok) ==
    /\ writer_pc = "open"
    /\ Len(pushed) + Len(rdh_cdps) <= MaxPushed
    /\ LET flushing == Len(filtered_rdhs_buffer) + Len(rdh_cdps) >= max_buffer_size
           unequal == Len(filtered_rdhs_buffer) # Len(filtered_payload_buffers)
           f == IF flushing
                THEN Flush(filtered_rdhs_buffer, filtered_payload_buffers, written, write_ok)
                ELSE [ok |-> TRUE, rdhs |-> filtered_rdhs_buffer,
                      payloads |-> filtered_payload_buffers, out |-> written]
       IN  /\ flush_mismatch' = IF flushing /\ unequal THEN "push" ELSE flush_mismatch
           /\ IF f.ok /\ ~(flushing /\ FlushAsserts(filtered_rdhs_buffer,
                                                     filtered_payload_buffers))
              THEN /\ filtered_rdhs_buffer' =
                        f.rdhs \o [k \in 1..Len(rdh_cdps) |-> CdpRdh(rdh_cdps[k])]
                   /\ filtered_payload_buffers' = f.payloads
                   /\ written' = f.out
                   /\ flushes' = flushes + Bit(flushing /\ filtered_rdhs_buffer # <<>>)
                   /\ pushed' = pushed \o rdh_cdps
                   /\ owed' = owed + Len(rdh_cdps)
                   /\ UNCHANGED writer_pc
              ELSE /\ writer_pc' = "panicked"
                   /\ UNCHANGED <<filtered_rdhs_buffer, filtered_payload_buffers, written,
                                  flushes, pushed, owed>>
    /\ UNCHANGED <<max_buffer_size, debug_assertions, flush_ret, flush_returns>>
    /\ UNCHANGED <<reader_vars, val_vars, load_vars, sanity_vars, tool_vars>>

\* push_payload(payload): writer.rs:79-84.
PushPayload(payload, write_ok) ==
    /\ writer_pc = "open"
    /\ LET flushing == Len(filtered_payload_buffers) + 1 >= max_buffer_size
           unequal == Len(filtered_rdhs_buffer) # Len(filtered_payload_buffers)
           f == IF flushing
                THEN Flush(filtered_rdhs_buffer, filtered_payload_buffers, written, write_ok)
                ELSE [ok |-> TRUE, rdhs |-> filtered_rdhs_buffer,
                      payloads |-> filtered_payload_buffers, out |-> written]
       IN  /\ flush_mismatch' = IF flushing /\ unequal THEN "push" ELSE flush_mismatch
           /\ IF f.ok /\ ~(flushing /\ FlushAsserts(filtered_rdhs_buffer,
                                                     filtered_payload_buffers))
              THEN /\ filtered_rdhs_buffer' = f.rdhs
                   /\ filtered_payload_buffers' = Append(f.payloads, payload)
                   /\ written' = f.out
                   /\ flushes' = flushes + Bit(flushing /\ filtered_rdhs_buffer # <<>>)
                   /\ owed' = owed - 1
                   /\ UNCHANGED writer_pc
              ELSE /\ writer_pc' = "panicked"
                   /\ UNCHANGED <<filtered_rdhs_buffer, filtered_payload_buffers, written,
                                  flushes, owed>>
    /\ UNCHANGED <<max_buffer_size, debug_assertions, pushed, flush_ret, flush_returns>>
    /\ UNCHANGED <<reader_vars, val_vars, load_vars, sanity_vars, tool_vars>>

\* drop(): writer.rs:123-129.  needs_drop::<Self>() holds, the struct owns
\* vectors; a flush that fails panics.
Drop(write_ok) ==
    /\ writer_pc = "open"
    /\ LET unequal == Len(filtered_rdhs_buffer) # Len(filtered_payload_buffers)
           f == Flush(filtered_rdhs_buffer, filtered_payload_buffers, written, write_ok)
       IN  /\ flush_mismatch' = IF unequal THEN "drop" ELSE flush_mismatch
           /\ IF f.ok /\ ~FlushAsserts(filtered_rdhs_buffer, filtered_payload_buffers)
              THEN /\ filtered_rdhs_buffer' = f.rdhs
                   /\ filtered_payload_buffers' = f.payloads
                   /\ written' = f.out
                   /\ writer_pc' = "dropped"
                   /\ flushes' = flushes + Bit(filtered_rdhs_buffer # <<>>)
              ELSE /\ writer_pc' = "panicked"
                   /\ UNCHANGED <<filtered_rdhs_buffer, filtered_payload_buffers, written,
                                  flushes>>
    /\ UNCHANGED <<max_buffer_size, pushed, debug_assertions, owed, flush_ret,
                   flush_returns>>
    /\ UNCHANGED <<reader_vars, val_vars, load_vars, sanity_vars, tool_vars>>

InitWriter ==
    /\ \E size \in 0..MaxBufferSize : InitWriterWith(size)
    /\ InitLoadIdle
    /\ InitSanityIdle
    /\ InitValidatorWith(FALSE, TRUE)
    /\ trace = NoTrace
    /\ InitReaderWith([good |-> 0, err |-> "UnexpectedEof", more |-> 0])
    /\ InitToolIdle

NextWriter ==
    \/ \E cdp_chunk \in WriterChunks, write_ok \in BOOLEAN : PushCdpChunk(cdp_chunk, write_ok)
    \/ \E write_ok \in BOOLEAN : Drop(write_ok)

SpecWriter == InitWriter /\ [][NextWriter]_vars

RECURSIVE Records(_)
\* The records of the CDPs in order: the 64 bytes of each RDH, then its payload.
Records(cdps_pushed) ==
    IF cdps_pushed = <<>> THEN <<>>
    ELSE Head(cdps_pushed).bytes \o Head(cdps_pushed).payload \o Records(Tail(cdps_pushed))

\* C30: once the writer is dropped without a failed write, the sink holds the
\* records of all pushed CDPs in push order, each once; and while the writer
\* is open the sink holds the records of the first k pushed CDPs and the
\* buffers hold the other ones, whatever flushes the threshold triggered.
C30_WrittenOnceInOrder ==
    /\ writer_pc = "dropped" =>
        /\ written = Records(pushed)
        /\ filtered_rdhs_buffer = <<>>
    /\ writer_pc = "open" =>
        \E k \in 0..Len(pushed) :
            /\ written = Records(SubSeq(pushed, 1, k))
            /\ Len(filtered_rdhs_buffer) = Len(pushed) - k
            /\ Len(filtered_payload_buffers) = Len(pushed) - k

C30_Witness ==
    /\ writer_pc = "dropped"
    /\ Len(pushed) = MaxPushed
    /\ Cardinality(Range(pushed)) = 2
    /\ flushes >= 3
    /\ max_buffer_size = 3

----------------------------------------------------------------------------
(***************************************************************************)
(* The writer driven through push_rdhs and push_payload as well            *)
(* (writer.rs:71-84), in builds with and without debug assertions.  The    *)
(* caller pushes the payloads of the RDHs it gave to push_rdhs, in order,  *)
(* before its next push_rdhs or push_cdp_chunk; it may drop the writer at  *)
(* any point.                                                              *)
(***************************************************************************)
InitWriterCalls ==
    /\ \E size \in 0..MaxBufferSize, debug \in BOOLEAN : InitWriterBuild(size, debug)
    /\ InitLoadIdle
    /\ InitSanityIdle
    /\ InitValidatorWith(FALSE, TRUE)
    /\ trace = NoTrace
    /\ InitReaderWith([good |-> 0, err |-> "UnexpectedEof", more |-> 0])
    /\ InitToolIdle

NextWriterCalls ==
    \/ /\ owed = 0
       /\ \E cdp_chunk \in WriterChunks, write_ok \in BOOLEAN :
            PushCdpChunk(cdp_chunk, write_ok)
    \/ /\ owed = 0
       /\ \E rdh_cdps \in WriterChunks, write_ok \in BOOLEAN : PushRdhs(rdh_cdps, write_ok)
    \/ /\ owed > 0
       /\ \E write_ok \in BOOLEAN :
            PushPayload(pushed[Len(pushed) - owed + 1].payload, write_ok)
    \/ \E write_ok \in BOOLEAN : Drop(write_ok)

SpecWriterCalls == InitWriterCalls /\ [][NextWriterCalls]_vars

\* C31: no flush triggered inside push_cdp_chunk, push_rdhs or push_payload
\* runs on buffers of unequal lengths when every push_rdhs(k) is followed by
\* its k push_payload calls; an open writer whose payloads are all pushed
\* holds as many RDHs as payloads; and a drop that finds unequal lengths
\* panics.
C31_LengthsStayEqual ==
    /\ flush_mismatch # "push"
    /\ (writer_pc = "open" /\ owed = 0) =>
            Len(filtered_rdhs_buffer) = Len(filtered_payload_buffers)
    /\ flush_mismatch = "drop" => writer_pc = "panicked"

----------------------------------------------------------------------------
(***************************************************************************)
(* flush() called by the owner of the writer (it is a method of the        *)
(* Writer trait, writer.rs:22), between pushes of CDP chunks.              *)
(***************************************************************************)
\* The flush() calls by the owner in one run.
MaxFlushCalls == 2

\* flush() called directly: writer.rs:100-120.  The error of a failed write
\* is returned to the caller (`?`, writer.rs:116).
FlushCall(write_ok) ==
    /\ writer_pc = "open"
    /\ flush_returns < MaxFlushCalls
    /\ LET unequal == Len(filtered_rdhs_buffer) # Len(filtered_payload_buffers)
           f == Flush(filtered_rdhs_buffer, filtered_payload_buffers, written, write_ok)
       IN  /\ flush_mismatch' = IF unequal THEN "flush" ELSE flush_mismatch
           /\ IF FlushAsserts(filtered_rdhs_buffer, filtered_payload_buffers)
              THEN /\ writer_pc' = "panicked"
                   /\ UNCHANGED <<filtered_rdhs_buffer, filtered_payload_buffers, written,
                                  flushes, flush_ret, flush_returns>>
              ELSE /\ filtered_rdhs_buffer' = f.rdhs
                   /\ filtered_payload_buffers' = f.payloads
                   /\ written' = f.out
                   /\ flushes' = flushes + Bit(f.ok /\ filtered_rdhs_buffer # <<>>)
                   /\ flush_ret' = IF f.ok THEN "Ok" ELSE "Err"
                   /\ flush_returns' = flush_returns + 1
                   /\ UNCHANGED writer_pc
    /\ UNCHANGED <<max_buffer_size, pushed, debug_assertions, owed>>
    /\ UNCHANGED <<reader_vars, val_vars, load_vars, sanity_vars, tool_vars>>

NextWriterFlush ==
    \/ \E cdp_chunk \in WriterChunks, write_ok \in BOOLEAN : PushCdpChunk(cdp_chunk, write_ok)
    \/ \E write_ok \in BOOLEAN : FlushCall(write_ok)
    \/ \E write_ok \in BOOLEAN : Drop(write_ok)

SpecWriterFlush == InitWriterCalls /\ [][NextWriterFlush]_vars

\* A flush() call of the owner returns in this step.
FlushReturns == flush_returns' = flush_returns + 1

\* C40: a flush() whose write fails returns the error and leaves both buffers
\* and the sink as they were; a flush() that returns Ok leaves both buffers
\* empty; and whatever flushes failed, the sink followed by the buffered CDPs
\* holds the records of all pushed CDPs in order, so none is discarded.
C40_FailedFlushKeepsBuffers ==
    /\ [](writer_pc = "open" =>
            written \o FlushData(filtered_rdhs_buffer, filtered_payload_buffers)
                = Records(pushed))
    /\ [][/\ (FlushReturns /\ flush_ret' = "Err") =>
                UNCHANGED <<filtered_rdhs_buffer, filtered_payload_buffers, written>>
          /\ (FlushReturns /\ flush_ret' = "Ok") =>
                /\ filtered_rdhs_buffer' = <<>>
                /\ filtered_payload_buffers' = <<>>
                /\ written' = Records(pushed)]_vars

C40_Witness ==
    /\ flush_ret = "Err"
    /\ flush_returns = MaxFlushCalls
    /\ writer_pc = "open"
    /\ Len(filtered_rdhs_buffer) = 2
    /\ Len(filtered_payload_buffers) = 2
    /\ written # <<>>

----------------------------------------------------------------------------
(***************************************************************************)
(* The link filter with buffered output (FilterLink, src/src/lib.rs).  An  *)
(* RDH is given by its link_id and memory_size; the reader holds the bytes *)
(* that follow the RDH just loaded.                                        *)
(***************************************************************************)
\* Bounds of the filter runs: the largest max_buffer_size, the bytes the
\* reader holds, the records accepted in one run.
MaxFilterBuffer == 2

MaxFilterInput == 4

MaxFiltered == 5

\* The RDHs given to filter_link: two links, payloads of 0 and of 1 byte.
FilterRdhs == [link_id : {0, 1}, memory_size : {64, 65}]

\* The panic of flush(): lib.rs:254.
MismatchPanic == "Number of RDHs and payloads don't match!"

\* flush(): lib.rs:251-282.  `out` is what the output holds, as records of an
\* RDH and its payload; a write that fails is unwrapped (lib.rs:266-267,
\* 275-276).
FilterFlush(rdhs, payloads, out, write_ok) ==
    IF Len(rdhs) > 0
    THEN IF Len(rdhs) # Len(payloads)
         THEN [pc |-> MismatchPanic, rdhs |-> rdhs, payloads |-> payloads, out |-> out]
         ELSE IF write_ok
              THEN [pc |-> "open", rdhs |-> <<>>, payloads |-> <<>>,
                    out |-> out \o [k \in 1..Len(rdhs) |->
                                        [rdh |-> rdhs[k], payload |-> payloads[k]]]]
              ELSE [pc |-> "write failed", rdhs |-> rdhs, payloads |-> payloads,
                    out |-> out]
    ELSE [pc |-> "open", rdhs |-> rdhs, payloads |-> payloads, out |-> out]

\* filter_link(buf_reader, rdh): lib.rs:235-250, with read_payload
\* (lib.rs:284-296) and the flush it may call.
FilterLink(rdh, write_ok) ==
    /\ filter_pc = "open"
    /\ total_filtered < MaxFiltered
    /\ IF rdh.link_id = link_to_filter
       THEN LET payload_size == rdh.memory_size - 64
                read_ok == payload_size <= Len(filter_input)
                payloads == Append(filter_payload_buffers,
                                   SubSeq(filter_input, 1, payload_size))
                f == IF Len(filter_rdhs_buffer) > filter_max_buffer_size
                     THEN FilterFlush(filter_rdhs_buffer, payloads, filter_out, write_ok)
                     ELSE [pc |-> "open", rdhs |-> filter_rdhs_buffer,
                           payloads |-> payloads, out |-> filter_out]
            IN  IF ~read_ok
                THEN /\ filter_pc' = "Failed to read payload"
                     /\ filter_input' = <<>>
                     /\ UNCHANGED <<filter_rdhs_buffer, filter_payload_buffers,
                                    total_filtered, filter_ret, filter_out>>
                ELSE /\ filter_input' =
                            SubSeq(filter_input, payload_size + 1, Len(filter_input))
                     /\ filter_pc' = f.pc
                     /\ filter_payload_buffers' = f.payloads
                     /\ filter_out' = f.out
                     /\ IF f.pc = "open"
                        THEN /\ filter_rdhs_buffer' = Append(f.rdhs, rdh)
                             /\ total_filtered' = total_filtered + 1
                             /\ filter_ret' = "true"
                        ELSE UNCHANGED <<filter_rdhs_buffer, total_filtered, filter_ret>>
       ELSE /\ filter_ret' = "false"
            /\ UNCHANGED <<filter_rdhs_buffer, filter_payload_buffers, total_filtered,
                           filter_input, filter_pc, filter_out>>
    /\ UNCHANGED <<link_to_filter, filter_max_buffer_size>>
    /\ UNCHANGED <<reader_vars, val_vars, rdh_io_vars, view_vars>>

\* drop(): lib.rs:302-306.
FilterDrop(write_ok) ==
    /\ filter_pc = "open"
    /\ LET f == FilterFlush(filter_rdhs_buffer, filter_payload_buffers, filter_out,
                            write_ok)
       IN  /\ filter_pc' = IF f.pc = "open" THEN "dropped" ELSE f.pc
           /\ filter_rdhs_buffer' = f.rdhs
           /\ filter_payload_buffers' = f.payloads
           /\ filter_out' = f.out
    /\ UNCHANGED <<link_to_filter, filter_max_buffer_size, total_filtered, filter_input,
                   filter_ret>>
    /\ UNCHANGED <<reader_vars, val_vars, rdh_io_vars, view_vars>>

\* The byte streams behind the RDHs.
FilterInputs == UNION {[1..n -> {7, 9}] : n \in 0..MaxFilterInput}

InitFilter ==
    /\ \E link \in {0, 1}, size \in 0..MaxFilterBuffer, bytes \in FilterInputs :
            InitFilterWith(link, size, bytes)
    /\ InitViewWith(<<>>)
    /\ InitLoadIdle
    /\ InitSanityIdle
    /\ InitWriterWith(1)
    /\ InitValidatorWith(FALSE, TRUE)
    /\ trace = NoTrace
    /\ InitReaderWith([good |-> 0, err |-> "UnexpectedEof", more |-> 0])

NextFilter ==
    \/ \E rdh \in FilterRdhs, write_ok \in BOOLEAN : FilterLink(rdh, write_ok)
    \/ \E write_ok \in BOOLEAN : FilterDrop(write_ok)

SpecFilter == InitFilter /\ [][NextFilter]_vars

\* C39: whenever flush runs, the RDH buffer and the payload buffer of the
\* link filter hold the same number of entries: no run of filter_link calls
\* ends in the panic "Number of RDHs and payloads don't match!".
C39_MismatchPanicUnreachable == filter_pc # MismatchPanic

----------------------------------------------------------------------------
\* C33: with the shutdown flag set the reader completes at most one get_chunk
\* call and sends at most one chunk; after a failed send it makes no further
\* get_chunk call, with the flag set or not, and it terminates.
C33_AfterStopSafe ==
    /\ after_stop.reads <= 1
    /\ after_stop.sends <= 1
    /\ after_stop.reads_after_failed_send = 0
    /\ after_stop.send_failed => reader_pc \in {"send_err", "head", "done"}

C33_AfterStop ==
    /\ []C33_AfterStopSafe
    /\ (after_stop.send_failed ~> reader_pc = "done")
    /\ (stop_flag ~> reader_pc = "done")

\* The flag was set while the reader was about to read: it read and sent one
\* more chunk, and stopped with input left.
C33_Witness ==
    /\ stop_flag
    /\ after_stop.reads = 1
    /\ after_stop.sends = 1
    /\ reader_pc = "done"
    /\ input_scanner < input.good

----------------------------------------------------------------------------
\* A step in which set_current_rdh ran.
SetCurrentRdhStep == rdh_arg'.n = rdh_arg.n + 1

\* C34: set_current_rdh stores a copy of the RDH, sets payload_mem_pos to
\* rdh_mem_pos + 64, the word padding to 6 for data_format 0 and to 0
\* otherwise, the new-payload flag to true and the word counter to 0; it
\* leaves the state of the payload state machine, the check mode and the
\* IHW, TDH, previous-TDH, TDT, DDW0 and previous-CDW slots as they were.
C34_SetCurrentRdhFrame ==
    [][SetCurrentRdhStep =>
        /\ current_rdh' = Some(RdhCopy(trace'.fed[Len(trace'.fed)].w))
        /\ payload_mem_pos' = rdh_arg'.rdh_mem_pos + 64
        /\ gbt_word_padding_size_bytes' = (IF rdh_arg'.data_format = 0 THEN 6 ELSE 0)
        /\ is_new_data'
        /\ gbt_word_counter' = 0
        /\ its_state_machine' = its_state_machine
        /\ UNCHANGED <<slot_vars, running_checks, stats_rx_alive>>]_vars

\* The second payload began in the middle of a frame: set_current_rdh was the
\* last call, the machine is past its initial state and slots are filled.
C34_Witness ==
    /\ trace.on
    /\ rdh_arg.n = 2
    /\ trace.fed[Len(trace.fed)].kind = "rdh"
    /\ gbt_word_counter = 0
    /\ its_state_machine \notin {FsmInitial, "S_AfterIHW"}
    /\ current_ihw # None
    /\ current_tdh # None
    /\ current_rdh = Some(RdhCopy(trace.fed[Len(trace.fed)].w))

----------------------------------------------------------------------------
\* The words of the traced run labelled TDH, TDH_continuation or
\* TDH_after_packet_done, in order.
WordsProcessedAsTdh ==
    LET tdhs == FedLabelled({"TDH", "TDH_continuation", "TDH_after_packet_done"})
    IN  [k \in 1..Len(tdhs) |-> tdhs[k].w]

\* C35: at every point of a run, current_tdh holds a copy of the last word
\* processed as a TDH and previous_tdh a copy of the one processed as a TDH
\* before it (none where there is none), whatever other words,
\* set_current_rdh calls and reset_fsm calls came in between or after.
C35_TdhSlots ==
    trace.on =>
        LET tdhs == WordsProcessedAsTdh
            n == Len(tdhs)
        IN  /\ current_tdh = IF n = 0 THEN None ELSE Some(TdhLoad(tdhs[n]))
            /\ previous_tdh = IF n <= 1 THEN None ELSE Some(TdhLoad(tdhs[n - 1]))

\* Two different TDHs were processed, the second one as a continuation, and a
\* new payload began after them.
C35_Witness ==
    /\ trace.on
    /\ Len(WordsProcessedAsTdh) = 2
    /\ WordsProcessedAsTdh[1] # WordsProcessedAsTdh[2]
    /\ "TDH_continuation" \in Range(trace.labels)
    /\ trace.fed[Len(trace.fed)].kind = "rdh"
    /\ rdh_arg.n = 2
    /\ previous_tdh = Some(TdhLoad(WordsProcessedAsTdh[1]))
    /\ current_tdh = Some(TdhLoad(WordsProcessedAsTdh[2]))

----------------------------------------------------------------------------
(***************************************************************************)
(* Traced runs with running checks over every word kind, among them        *)
(* payloads that begin with a data word or with a CDW.                     *)
(***************************************************************************)
SlotWords ==
    {w \in GbtWords : w.id \in {224, 240, 32, 71, 248}}
        \cup {[ZeroWord EXCEPT !.id = 232, !.internal_trigger = 1, !.trigger_type = 16]}

NextSlots ==
    \/ Len(trace.fed) < MaxTrace /\ \E p \in Payloads : SetCurrentRdh(p.rdh, p.rdh_mem_pos)
    \/ Len(trace.fed) < MaxTrace /\ \E w \in SlotWords : Check(w)
    \/ Len(trace.fed) < MaxTrace /\ ResetFsm

SpecSlots == InitTraced /\ [][NextSlots]_vars

\* The slots check() unwraps for a word with this label, before the word
\* itself is stored: the RDH in the checks at IHW, TDH, TDH after packet done
\* and DDW0 (cdp_running.rs:356, 379-382, 392, 422-460), the IHW in the lane
\* checks (cdp_running.rs:293, 309).  The TDH cross-checks read previous_tdh
\* through `if let Some`, and they unwrap current_tdh after
\* process_status_word stored the word in it (cdp_running.rs:354-365,
\* 403-414, 237).
UnwrappedSlots(label, w) ==
    (IF label \in {"IHW", "TDH", "TDH_after_packet_done", "DDW0"}
     THEN {"current_rdh"} ELSE {})
        \cup (IF label \in {"CDW", "DataWord"} /\ ~IsCdwBranch(w) /\ (w.id \div 32) \in {1, 2}
              THEN {"current_ihw"} ELSE {})

EmptySlots ==
    (IF current_rdh = None THEN {"current_rdh"} ELSE {})
        \cup (IF current_ihw = None THEN {"current_ihw"} ELSE {})

----------------------------------------------------------------------------
\* C37: among the errors check() emits for a word, a sanity error (E30, E40,
\* E50, E60, E70) comes first and every other one is a cross-word error; all
\* of them carry the position of that word, which is not below any position
\* reported earlier in the payload, so the errors of a payload reach the
\* stats channel in non-decreasing order of position.
C37_ErrorOrder ==
    /\ \A k \in 1..Len(word_errors) :
        /\ word_errors[k].code \in SanityCodes => k = 1
        /\ k > 1 => word_errors[k].code \in CrossWordCodes
        /\ word_errors[k].counter = payload_words
        /\ word_errors[k].pos >= prev_reported
    /\ \A j, k \in 1..Len(word_errors) : j < k => word_errors[j].pos <= word_errors[k].pos

\* A word got its sanity error and then cross-word errors, after an earlier
\* word of the payload had reported an error.
C37_Witness ==
    /\ Len(word_errors) >= 3
    /\ word_errors[1].code = "E40"
    /\ word_errors[2].code \in CrossWordCodes
    /\ prev_reported >= 0
    /\ word_errors[1].pos > prev_reported

----------------------------------------------------------------------------
(***************************************************************************)
(* The HBF view (src/src/view/hbf_view.rs).  A CDP of a chunk is its RDH,  *)
(* the position of the RDH, the GBT words of its payload and the bytes     *)
(* that follow the last whole word (`extra`).                              *)
(***************************************************************************)
\* Bounds of the view runs: the CDPs of a chunk, the calls of hbf_view.
MaxViewChunkLen == 2

MaxViewCalls == 2

\* Bytes a GBT word takes in a payload of this data_format.
WordStride(rdh_data_format) == IF rdh_data_format = 0 THEN 16 ELSE 10

PayloadLen(cdp) == Len(cdp.words) * WordStride(cdp.rdh.data_format) + cdp.extra

\* preprocess_payload(payload, data_format): the words of the payload, or
\* InvalidFormat when the length is not a multiple of the stride.
PreprocessPayload(cdp) ==
    IF PayloadLen(cdp) % WordStride(cdp.rdh.data_format) = 0
    THEN [ok |-> TRUE, gbt_words |-> cdp.words]
    ELSE [ok |-> FALSE, gbt_words |-> <<>>]

\* Mutant of calc_current_word_mem_pos: the position is relative to the RDH.
calc_current_word_mem_pos_from_rdh(word_idx, rdh_data_format, rdh_mem_pos) ==
    LET gbt_word_padding == IF rdh_data_format = 0 THEN 6 ELSE 0
    IN  word_idx * (10 + gbt_word_padding) + rdh_mem_pos

\* calc_current_word_mem_pos(word_idx, data_format, rdh_mem_pos):
\* hbf_view.rs:108-119.
calc_current_word_mem_pos(word_idx, rdh_data_format, rdh_mem_pos) ==
    LET gbt_word_padding == IF rdh_data_format = 0 THEN 6 ELSE 0
        gbt_word_memory_size_bytes == 10 + gbt_word_padding
        relative_mem_pos == word_idx * gbt_word_memory_size_bytes
    IN  relative_mem_pos + rdh_mem_pos + 64

RECURSIVE ViewGbtWords(_, _, _, _, _)
\* The loop over the words of a payload, from index idx on: hbf_view.rs:30-42.
ViewGbtWords(gbt_words, idx, fsm, cdp, n) ==
    IF idx >= Len(gbt_words) THEN [fsm |-> fsm, lines |-> <<>>]
    ELSE LET adv == Advance(fsm, gbt_words[idx + 1])
             line == [cdp |-> n, idx |-> idx, label |-> adv.label,
                      pos |-> calc_current_word_mem_pos(idx, cdp.rdh.data_format,
                                                        cdp.rdh_mem_pos)]
             rest == ViewGbtWords(gbt_words, idx + 1, adv.next, cdp, n)
         IN  [fsm |-> rest.fsm, lines |-> <<line>> \o rest.lines]

\* Mutant of ViewCdp: a payload of invalid format leaves the state machine
\* where it is.
ViewCdpNoReset(cdp, fsm, n) ==
    LET p == PreprocessPayload(cdp)
        shown == ViewGbtWords(p.gbt_words, 0, fsm, cdp, n)
    IN  IF p.ok
        THEN [fsm |-> shown.fsm, stats |-> <<>>, lines |-> shown.lines,
              did |-> [valid |-> TRUE, errors |-> 0, resets |-> 0,
                       words |-> Len(shown.lines), panicked |-> FALSE]]
        ELSE IF stats_rx_alive
        THEN [fsm |-> fsm, stats |-> <<"InvalidFormat">>, lines |-> <<>>,
              did |-> [valid |-> FALSE, errors |-> 1, resets |-> 0, words |-> 0,
                       panicked |-> FALSE]]
        ELSE [fsm |-> fsm, stats |-> <<>>, lines |-> <<>>,
              did |-> [valid |-> FALSE, errors |-> 0, resets |-> 0, words |-> 0,
                       panicked |-> TRUE]]

\* One iteration of the loop over the CDPs of the chunk, for its n-th CDP:
\* hbf_view.rs:15-44. The send of the error is unwrapped (hbf_view.rs:21-23):
\* it panics, before the reset, when the receiver of the stats channel is gone.
ViewCdp(cdp, fsm, n) ==
    LET p == PreprocessPayload(cdp)
        shown == ViewGbtWords(p.gbt_words, 0, fsm, cdp, n)
    IN  IF p.ok
        THEN [fsm |-> shown.fsm, stats |-> <<>>, lines |-> shown.lines,
              did |-> [valid |-> TRUE, errors |-> 0, resets |-> 0,
                       words |-> Len(shown.lines), panicked |-> FALSE]]
        ELSE IF stats_rx_alive
        THEN [fsm |-> FsmInitial, stats |-> <<"InvalidFormat">>, lines |-> <<>>,
              did |-> [valid |-> FALSE, errors |-> 1, resets |-> 1, words |-> 0,
                       panicked |-> FALSE]]
        ELSE [fsm |-> fsm, stats |-> <<>>, lines |-> <<>>,
              did |-> [valid |-> FALSE, errors |-> 0, resets |-> 0, words |-> 0,
                       panicked |-> TRUE]]

RECURSIVE ViewLoop(_, _, _)
\* The loop over the CDPs of the chunk from the n-th on: hbf_view.rs:15. A
\* panic ends it.
ViewLoop(chunk, n, fsm) ==
    IF n > Len(chunk) THEN [fsm |-> fsm, stats |-> <<>>, lines |-> <<>>, cdps |-> <<>>]
    ELSE LET one == ViewCdp(chunk[n], fsm, n)
             rest == IF one.did.panicked
                     THEN [fsm |-> one.fsm, stats |-> <<>>, lines |-> <<>>, cdps |-> <<>>]
                     ELSE ViewLoop(chunk, n + 1, one.fsm)
         IN  [fsm |-> rest.fsm, stats |-> one.stats \o rest.stats,
              lines |-> one.lines \o rest.lines,
              cdps |-> <<[one.did EXCEPT !.valid = one.did.valid] @@
                          [fsm_before |-> fsm, fsm_after |-> one.fsm]>> \o rest.cdps]

\* hbf_view(cdp_chunk, send_stats_ch, its_payload_fsm_cont): hbf_view.rs:8-46,
\* with a standard output that takes every line. The stats channel is the one
\* of the validator (stats_rx_alive tells whether its receiver is there).
HbfView(cdp_chunk) ==
    /\ view_last.calls < MaxViewCalls
    /\ ~view_last.panicked
    /\ LET v == ViewLoop(cdp_chunk, 1, view_fsm)
       IN  /\ view_chunk' = cdp_chunk
           /\ view_fsm' = v.fsm
           /\ view_stats' = view_stats \o v.stats
           /\ view_lines' = v.lines
           /\ view_last' = [calls |-> view_last.calls + 1, cdps |-> v.cdps,
                             panicked |-> \E k \in 1..Len(v.cdps) : v.cdps[k].panicked]
    /\ UNCHANGED <<reader_vars, val_vars, rdh_io_vars, filter_vars>>

\* The words of the view runs: an IHW, and a word with no valid ID.
ViewIhw == [ZeroWord EXCEPT !.id = 224, !.active_lanes = 1]

ViewNoId == [ZeroWord EXCEPT !.id = 243, !.sane = FALSE]

\* The CDPs of the view runs, with 16-byte and 10-byte words: payloads of
\* whole words (one of them empty), and payloads with bytes after the last
\* whole word (10 bytes are a whole word only for 10-byte words).
ViewCdps ==
    {[rdh |-> RdhOf(0, 0, 2, 16), words |-> <<ViewIhw>>, extra |-> 0],
     [rdh |-> RdhOf(0, 0, 0, 16), words |-> <<ViewNoId, ViewNoId>>, extra |-> 0],
     [rdh |-> RdhOf(0, 0, 2, 16), words |-> <<>>, extra |-> 0],
     [rdh |-> RdhOf(0, 0, 2, 16), words |-> <<ViewNoId, ViewNoId>>, extra |-> 4],
     [rdh |-> RdhOf(0, 0, 0, 16), words |-> <<ViewIhw>>, extra |-> 4],
     [rdh |-> RdhOf(0, 0, 0, 16), words |-> <<>>, extra |-> 10]}

RECURSIVE PlaceCdps(_, _)
\* The positions the reader gives to the RDHs of consecutive CDPs.
PlaceCdps(seq, pos) ==
    IF seq = <<>> THEN <<>>
    ELSE <<Head(seq) @@ [rdh_mem_pos |-> pos]>>
            \o PlaceCdps(Tail(seq), pos + 64 + PayloadLen(Head(seq)))

\* The chunks of the view runs, the first RDH at the start of the input.
ViewChunks ==
    {PlaceCdps(seq, 0) : seq \in UNION {[1..n -> ViewCdps] : n \in 0..MaxViewChunkLen}}

InitView ==
    /\ InitViewWith(<<>>)
    /\ InitFilterWith(0, 1, <<>>)
    /\ InitLoadIdle
    /\ InitSanityIdle
    /\ InitWriterWith(1)
    /\ \E alive \in BOOLEAN : InitValidatorWith(FALSE, alive)
    /\ trace = NoTrace
    /\ InitReaderWith([good |-> 0, err |-> "UnexpectedEof", more |-> 0])

NextView == \E cdp_chunk \in ViewChunks : HbfView(cdp_chunk)

SpecView == InitView /\ [][NextView]_vars

\* C32: while the receiver of the stats channel is there, for every CDP of
\* the chunk whose payload length is not a multiple of the word stride,
\* hbf_view sends one Error, resets the state machine and classifies no word
\* of it; it sends nothing for the other CDPs and goes on with the CDP that
\* follows, from the initial state after an invalid one. It panics only when
\* the receiver is gone.
C32_InvalidFormat ==
    /\ view_last.panicked => ~stats_rx_alive
    /\ ~view_last.panicked =>
        /\ Len(view_last.cdps) = Len(view_chunk)
        /\ \A n \in 1..Len(view_chunk) :
            LET cdp == view_chunk[n]
                did == view_last.cdps[n]
                invalid == PayloadLen(cdp) % WordStride(cdp.rdh.data_format) # 0
                lines == SelectSeq(view_lines, LAMBDA l : l.cdp = n)
            IN  /\ did.valid = ~invalid
                /\ invalid =>
                    /\ stats_rx_alive
                    /\ did.errors = 1
                    /\ did.fsm_after = FsmInitial
                    /\ lines = <<>>
                /\ ~invalid =>
                    /\ did.errors = 0
                    /\ Len(lines) = Len(cdp.words)
                /\ n < Len(view_chunk) => view_last.cdps[n + 1].fsm_before = did.fsm_after
        /\ view_last.calls = 1 =>
            Len(view_stats) = Cardinality({n \in 1..Len(view_chunk) :
                PayloadLen(view_chunk[n]) % WordStride(view_chunk[n].rdh.data_format) # 0})

\* An invalid payload came while the machine was in the middle of a frame, and
\* the words of the CDP after it were classified from the initial state.
C32_Witness ==
    /\ ~view_last.panicked
    /\ Len(view_chunk) = 2
    /\ ~view_last.cdps[1].valid
    /\ view_last.cdps[1].fsm_before = "S_AfterIHW"
    /\ view_last.cdps[1].fsm_after = FsmInitial
    /\ view_chunk[1].words # <<>>
    /\ view_last.cdps[2].valid
    /\ Len(view_lines) = 2
    /\ view_lines[1].label = "IHW"
    /\ view_lines[1].cdp = 2

----------------------------------------------------------------------------
(***************************************************************************)
(* The view and the running validator on the same CDPs: hbf_view shows a   *)
(* chunk, and the validator is given the RDH of each of its CDPs and then  *)
(* the words of the payload, in order.                                     *)
(***************************************************************************)
\* The chunks both tools take: every payload is of whole words, the first RDH
\* at the start of the input or further on.
ViewPosChunks ==
    {PlaceCdps(seq, pos) :
        seq \in UNION {[1..n -> {cdp \in ViewCdps : cdp.extra = 0}] : n \in 0..MaxViewChunkLen},
        pos \in {0, 5088}}

ViewPosView ==
    /\ view_last.calls = 0
    /\ \E cdp_chunk \in ViewPosChunks : HbfView(cdp_chunk)

\* The validator goes to the next CDP once the words of the last are checked.
ViewPosRdh ==
    /\ view_last.calls = 1
    /\ rdh_arg.n < Len(view_chunk)
    /\ rdh_arg.n > 0 => payload_words = Len(view_chunk[rdh_arg.n].words)
    /\ SetCurrentRdh(view_chunk[rdh_arg.n + 1].rdh, view_chunk[rdh_arg.n + 1].rdh_mem_pos)

ViewPosCheck ==
    /\ rdh_arg.n > 0
    /\ payload_words < Len(view_chunk[rdh_arg.n].words)
    /\ Check(view_chunk[rdh_arg.n].words[payload_words + 1])

InitViewPos ==
    /\ InitViewWith(<<>>)
    /\ InitFilterWith(0, 1, <<>>)
    /\ InitLoadIdle
    /\ InitSanityIdle
    /\ InitWriterWith(1)
    /\ \E checks \in BOOLEAN : InitValidatorWith(checks, TRUE)
    /\ trace = NoTrace
    /\ InitReaderWith([good |-> 0, err |-> "UnexpectedEof", more |-> 0])

NextViewPos ==
    \/ ViewPosView
    \/ ViewPosRdh
    \/ ViewPosCheck

SpecViewPos == InitViewPos /\ [][NextViewPos]_vars

====
